---- MODULE Spec2Model ----
(***************************************************************************)
(* The managed engine adapter of mvp-stt-docker                            *)
(* (adapters/managed_ws_adapter.py): one ManagedWebSocketAdapter instance, *)
(* its asyncio.Lock, the callers of its public coroutines, and the engine  *)
(* subprocesses it starts.  A caller's position (pc) changes at every      *)
(* await of the code and at every return from a helper coroutine; the      *)
(* subprocess, the socket and the clock are the environment.               *)
(***************************************************************************)
EXTENDS Integers, Sequences, FiniteSets, TLC

\* ---------------------------------------------------------------- bounds
NumCallers == 2
MaxOps == 3
MaxChunks == 2
MaxUptime == 1
WireWindow == 1

Callers == 1..NumCallers

\* Python's None, for the handle slot and the connection slot (pids are >= 1)
None == 0

\* --------------------------------------------------- model directories
\* A directory name or model id is a sequence of segments, so that the
\* prefixes the code prepends and strips are prefixes of sequences.
NemoPrefix == <<"sherpa-onnx-", "nemo-">>
PlainPrefix == <<"sherpa-onnx-">>

IdA == <<"parakeet-tdt-0.6b-v2-int8">>
IdB == <<"modelB">>
IdPartial == <<"partial">>
IdNoTokens == <<"notokens">>
IdAbsent == <<"absent">>
ModelIds == {IdA, IdB, IdPartial, IdNoTokens, IdAbsent}
NoModel == <<>>

\* KNOWN_MODELS: model id -> dir_prefix
KNOWN_MODELS ==
    [m \in {<<"parakeet-tdt-0.6b-v2-int8">>, <<"parakeet-tdt-0.6b-v3-int8">>}
        |-> NemoPrefix \o m]

Components == {"encoder", "decoder", "joiner"}
QuantFiles == {<<c, "int8.onnx">> : c \in Components}
PlainFiles == {<<c, "onnx">> : c \in Components}
TokensFile == <<"tokens.txt">>

\* The directory tree under MODEL_DIR the adapter runs against: directory
\* name -> the files in it.
BaseDir ==
    (NemoPrefix \o IdA) :> ({TokensFile} \cup QuantFiles)
    @@ IdB :> ({TokensFile} \cup PlainFiles \cup {<<"encoder", "int8.onnx">>})
    @@ IdPartial :> {TokensFile, <<"encoder", "onnx">>, <<"decoder", "onnx">>}
    @@ IdNoTokens :> PlainFiles

HasTokens(fs, d) == d \in DOMAIN fs /\ TokensFile \in fs[d]

\* _find_model_dir: direct match, then the sherpa-onnx-nemo- prefix, then the
\* KNOWN_MODELS alias; NoModel stands for the None it returns
FindModelDir(fs, id) ==
    IF HasTokens(fs, id) THEN id
    ELSE IF HasTokens(fs, NemoPrefix \o id) THEN NemoPrefix \o id
    ELSE IF id \in DOMAIN KNOWN_MODELS /\ HasTokens(fs, KNOWN_MODELS[id])
         THEN KNOWN_MODELS[id]
    ELSE NoModel

\* the file _detect_model_files picks for one component ("" when neither exists)
ComponentFile(fs, d, c) ==
    IF <<c, "int8.onnx">> \in fs[d] THEN <<c, "int8.onnx">>
    ELSE IF <<c, "onnx">> \in fs[d] THEN <<c, "onnx">>
    ELSE <<>>

\* a validation that forgets the joiner
DetectSkipsJoiner(fs, d) ==
    LET files == [c \in Components |-> ComponentFile(fs, d, c)]
    IN  [ok |-> TokensFile \in fs[d] /\ \A c \in Components \ {"joiner"} : files[c] # <<>>,
         files |-> files]

\* _detect_model_files: ok = FALSE stands for the FileNotFoundError
DetectModelFiles(fs, d) ==
    LET files == [c \in Components |-> ComponentFile(fs, d, c)]
    IN  [ok |-> TokensFile \in fs[d] /\ \A c \in Components : files[c] # <<>>,
         files |-> files]

\* ------------------------------------------------------- health metrics
\* HealthMetrics() as constructed / after reset()
ResetMetrics ==
    [request_count |-> 0, error_count |-> 0, consecutive_errors |-> 0,
     last_restart_time |-> 0, subprocess_restart_count |-> 0]

\* a record_success that forgets the errors counted so far
SuccessClearsErrors(m) ==
    [m EXCEPT !.request_count = @ + 1, !.consecutive_errors = 0,
              !.error_count = 0]

RecordSuccess(m) ==
    [m EXCEPT !.request_count = @ + 1, !.consecutive_errors = 0]

RecordError(m) ==
    [m EXCEPT !.request_count = @ + 1, !.error_count = @ + 1,
              !.consecutive_errors = @ + 1]

\* last_restart_time is only reported: 0, or Stamp for a time.time() value
Stamp == 1

\* a record_restart that counts two
RecordRestartTwice(m) ==
    [m EXCEPT !.subprocess_restart_count = @ + 2, !.last_restart_time = Stamp]

RecordRestart(m) ==
    [m EXCEPT !.subprocess_restart_count = @ + 1, !.last_restart_time = Stamp]

\* ------------------------------------------------------------- requests
\* the inputs of transcribe: the sample rate and the number of float32
\* samples; the counts lie around the multiples of a chunk
chunk_size == 10240

SampleRates == {8000, 16000}
SampleCounts ==
    {k * (chunk_size \div 4) - d : k \in 1..(MaxChunks - 1), d \in {1, 2}}

\* the requests made: every count, the odd counts at the higher rate and the
\* even ones at the lower
Requests ==
    {q \in SampleRates \X SampleCounts : (q[1] = 16000) <=> (q[2] % 2 = 1)}


Min(a, b) == IF a < b THEN a ELSE b
Max(a, b) == IF a > b THEN a ELSE b

\* struct.pack("<i", x) for 0 <= x < 2^31: four bytes, least significant first
PackI32(x) == [i \in 1..4 |-> (x \div 256 ^ (i - 1)) % 256]

\* header + samples.tobytes(): the eight header bytes, then 4 bytes per
\* sample, of which the model keeps the number
Buf(rate, n) == [header |-> PackI32(rate) \o PackI32(n * 4), audio |-> n * 4]

BufLen(buf) == Len(buf.header) + buf.audio

\* buf[start : stop], clipped at the end of the buffer as Python clips it
Slice(buf, start, stop) ==
    [header |-> SubSeq(buf.header, start + 1, Min(stop, Len(buf.header))),
     audio |-> Max(0, Min(stop, BufLen(buf)) - Max(start, Len(buf.header)))]

\* a variant of Chunk that cuts the messages out of the sample bytes only
ChunkOfSamplesOnly(buf, k) ==
    Slice(buf, Len(buf.header) + k * chunk_size,
               Len(buf.header) + (k + 1) * chunk_size)

\* the k-th message of the loop over range(0, len(buf), chunk_size), k from 0
Chunk(buf, k) == Slice(buf, k * chunk_size, (k + 1) * chunk_size)

\* a variant of HasChunk that counts the audio bytes only
HasChunkOfAudio(buf, k) == k * chunk_size < buf.audio

\* whether range(0, len(buf), chunk_size) has a k-th start
HasChunk(buf, k) == k * chunk_size < BufLen(buf)

\* ------------------------------------------------------------- responses
\* Text is a sequence of symbols: a blank, a word, or the token <EMPTY>.
Blank == " "
Sentinel == "<EMPTY>"

RECURSIVE LStrip(_)
LStrip(s) == IF s # <<>> /\ Head(s) = Blank THEN LStrip(Tail(s)) ELSE s

RECURSIVE RStrip(_)
RStrip(s) ==
    IF s # <<>> /\ s[Len(s)] = Blank THEN RStrip(SubSeq(s, 1, Len(s) - 1)) ELSE s

\* str.strip()
Strip(s) == LStrip(RStrip(s))

\* the texts an answer may carry: padded speech, the padded sentinel
Texts == {<<Blank, "hello", Blank>>, <<Blank, Sentinel>>}

\* What the engine may answer, as json.loads sees it: a JSON object (a
\* function from field names to values), a JSON value that is no object, or
\* text that is not JSON.  raw is the message as received.
Responses ==
    {[form |-> "object", value |-> [text |-> t], raw |-> <<"{text:">> \o t \o <<"}">>] :
        t \in Texts}
    \cup {[form |-> "object", value |-> [lang |-> <<"en">>], raw |-> <<"{lang:en}">>]}
    \cup {[form |-> "other", value |-> <<"42">>, raw |-> <<"42", Blank>>]}
    \cup {[form |-> "none", value |-> t, raw |-> t] : t \in Texts}

NoResponse == [form |-> "none", value |-> <<>>, raw |-> <<>>]

\* parsed.get("text", "")
GetText(obj) == IF "text" \in DOMAIN obj THEN obj.text ELSE <<>>

\* json.loads succeeds and parsed.get or .strip raises: a JSON value that is
\* no object has no .get, and the AttributeError is not among the caught
ParseRaises(r) == r.form = "other"

\* the text _do_transcribe returns for answer r
ParseText(r) ==
    IF r.form = "object"
    THEN Strip(GetText(r.value))
    ELSE LET text == Strip(r.raw)
         IN  IF text = <<Sentinel>> THEN <<>> ELSE text

\* ---------------------------------------------------------------- state
VARIABLES
    \* ManagedWebSocketAdapter fields
    state,                  \* _state
    model_id,               \* _model_id (NoModel for None)
    model_dir,              \* _model_dir (NoModel for None)
    process,                \* _process: pid of the handle, or None
    ws,                     \* _ws: pid of the connection's peer, or None
    uptime,                 \* time.time() - _uptime, in clock
                            \* ticks; NotStarted while _uptime is 0
    metrics,                \* _metrics
    \* asyncio.Lock
    locked,                 \* Lock._locked
    waiters,                \* Lock._waiters, in arrival order
    \* configuration
    restart_hours,          \* PROACTIVE_RESTART_HOURS, in clock ticks
    base_dir,               \* the directory tree at _base_dir
    \* callers
    pc,                     \* where each caller's coroutine is suspended
    call,                   \* each caller's operation, arguments and locals
    result,                 \* what each caller's last call returned or raised
    trace,                  \* events of each caller's current (or last) call
    \* environment
    alive,                  \* pids of the started processes that still run
    serving,                \* <<pid, model files>> of the running processes'
                            \* command lines
    wire,                   \* the last WireWindow messages put on the socket
    ops                     \* number of calls made so far

adapterVars == <<state, model_id, model_dir, process, ws,
                 uptime, metrics>>
lockVars == <<locked, waiters>>
callerVars == <<pc, call, result, trace>>
envVars == <<alive, serving>>
vars == <<adapterVars, lockVars, restart_hours, base_dir, callerVars, envVars, wire, ops>>

\* _uptime = 0.0
NotStarted == -1

NoResult == [ok |-> FALSE, val |-> "none"]
Ok(v) == [ok |-> TRUE, val |-> v]
Err(v) == [ok |-> FALSE, val |-> v]

\* a caller's locals outside a call
NoCall ==
    [op |-> "none", arg |-> NoModel, rate |-> 0, samples |-> 0, attempt |-> 0, sent |-> 0,
     resp |-> NoResponse, kret |-> "none", rkind |-> "none", m0 |-> ResetMetrics,
     stderr |-> <<>>, gate |-> FALSE,
     ready |-> "none", delay |-> 0, waited |-> 0]

\* PROACTIVE_RESTART_HOURS values the adapter is run with (0 disables)
RestartHoursChoices == {0, 1}

Init ==
    /\ state = "unloaded"
    /\ model_id = NoModel
    /\ model_dir = NoModel
    /\ process = None
    /\ ws = None
    /\ uptime = NotStarted
    /\ metrics = ResetMetrics
    /\ locked = FALSE
    /\ waiters = <<>>
    /\ restart_hours \in RestartHoursChoices
    /\ base_dir = BaseDir
    /\ pc = [c \in Callers |-> "idle"]
    /\ call = [c \in Callers |-> NoCall]
    /\ result = [c \in Callers |-> NoResult]
    /\ trace = [c \in Callers |-> <<>>]
    /\ alive = {}
    /\ serving = {}
    /\ wire = <<>>
    /\ ops = 0


\* ------------------------------------------------------------ the gate
\* variants of NeedsGate in which one operation runs its body without the lock
GateSkipsUnload(o) == o \in {"transcribe", "load_model"}
GateSkipsLoad(o) == o \in {"transcribe", "unload_model"}

\* the operations that take self._lock around their body
NeedsGate(o) == o \in {"transcribe", "load_model", "unload_model"}

\* a fast path that looks at the queue only, not at the holder
FastPathIgnoresHolder == waiters = <<>>

\* a fast path that looks at the holder only, not at the queue
FastPathIgnoresQueue == ~locked

\* asyncio.Lock.acquire's fast path: not locked and nobody queued
LockFree == ~locked /\ waiters = <<>>

\* first label of each operation's body
Entry(o) ==
    CASE o = "transcribe" -> "t_guard"
      [] o = "load_model" -> "l_entry"
      [] OTHER -> "u_close"

\* the labels at which a caller is inside an operation's body
BodyPCs ==
    {"t_guard", "r_close", "r_start", "r_ready", "r_failed",
     "a_conn", "a_open", "a_send", "a_recv", "a_done", "a_close",
     "k_entry", "k_term", "k_kill",
     "l_entry", "l_start", "l_ready", "l_failed", "u_close", "u_clear"}

\* "done": the call has its result; what is left is the finally / async-with
\* exit that releases the gate, and the return to the caller

InBody(c) == pc[c] \in BodyPCs

Goto(c, l) == pc' = [pc EXCEPT ![c] = l]
Event(c, e) == trace' = [trace EXCEPT ![c] = Append(@, e)]

\* a call starts: take the gate at once, or queue for it
Begin(c, o, m, r, n) ==
    /\ pc[c] = "idle"
    /\ ops < MaxOps
    /\ ops' = ops + 1
    /\ call' = [call EXCEPT ![c] = [NoCall EXCEPT !.op = o, !.arg = m, !.rate = r,
                                                 !.samples = n,
                                                 !.gate = NeedsGate(o) /\ LockFree]]
    /\ IF ~NeedsGate(o)
       THEN Goto(c, Entry(o)) /\ UNCHANGED lockVars
       ELSE IF LockFree
       THEN Goto(c, Entry(o)) /\ locked' = TRUE /\ UNCHANGED waiters
       ELSE Goto(c, "wait") /\ waiters' = Append(waiters, c) /\ UNCHANGED locked
    /\ UNCHANGED <<adapterVars, restart_hours, base_dir, result, trace, envVars, wire>>

CallTranscribe(c) ==
    \E q \in Requests : Begin(c, "transcribe", NoModel, q[1], q[2])
CallLoadModel(c) == \E m \in ModelIds : Begin(c, "load_model", m, 0, 0)
CallUnloadModel(c) == Begin(c, "unload_model", NoModel, 0, 0)

\* Lock.acquire resumes the first waiter once the lock has been released
WaitAcquire(c) ==
    /\ pc[c] = "wait"
    /\ ~locked
    /\ Head(waiters) = c
    /\ locked' = TRUE
    /\ waiters' = Tail(waiters)
    /\ Goto(c, Entry(call[c].op))
    /\ call' = [call EXCEPT ![c].gate = TRUE]
    /\ UNCHANGED <<adapterVars, restart_hours, base_dir, result, trace, envVars, wire, ops>>

\* the operations whose wait for the gate is wrapped in wait_for(LOCK_TIMEOUT)
WaitBounded(o) == o = "transcribe"

\* wait_for gives up: RuntimeError("lock acquisition timed out")
LockTimeout(c) ==
    /\ pc[c] = "wait"
    /\ WaitBounded(call[c].op)
    /\ waiters' = SelectSeq(waiters, LAMBDA w : w # c)
    /\ Goto(c, "done")
    /\ result' = [result EXCEPT ![c] = Err("lock_timeout")]
    /\ UNCHANGED <<adapterVars, restart_hours, base_dir, locked, call, trace, envVars, wire, ops>>

\* the call has its result r (a value, or the exception it raises)
Return(c, r) ==
    /\ Goto(c, "done")
    /\ result' = [result EXCEPT ![c] = r]
    /\ UNCHANGED <<call, lockVars>>

\* an exit that releases the lock whether or not this call took it
LeaveAlwaysReleases(c) ==
    /\ pc[c] = "done"
    /\ locked' = FALSE
    /\ Goto(c, "idle")
    /\ call' = [call EXCEPT ![c] = NoCall]
    /\ result' = [result EXCEPT ![c] = NoResult]
    /\ trace' = [trace EXCEPT ![c] = <<>>]
    /\ UNCHANGED <<adapterVars, restart_hours, base_dir, waiters, envVars, wire, ops>>

\* the finally / async-with exit releases the gate if this call took it,
\* and the call is over
Leave(c) ==
    /\ pc[c] = "done"
    /\ locked' = IF call[c].gate THEN FALSE ELSE locked
    /\ Goto(c, "idle")
    /\ call' = [call EXCEPT ![c] = NoCall]
    /\ result' = [result EXCEPT ![c] = NoResult]
    /\ trace' = [trace EXCEPT ![c] = <<>>]
    /\ UNCHANGED <<adapterVars, restart_hours, base_dir, waiters, envVars, wire, ops>>

\* _close_connection: the slot is emptied; the close is seen on the wire
Written(e) ==
    IF Len(wire) < WireWindow THEN Append(wire, e) ELSE Append(Tail(wire), e)

Closed(c) == IF ws # None THEN Written(<<c, "close">>) ELSE wire


\* ------------------------------------------------------ stopping a process
\* _kill_process is entered with the label to continue at in call[c].kret
KillDone(c) ==
    /\ process' = None
    /\ Goto(c, call[c].kret)
    /\ UNCHANGED <<state, model_id, model_dir, ws, uptime, metrics,
                   lockVars, restart_hours, base_dir, call, result, trace, envVars, wire, ops>>

\* the process of the handle has exited (its returncode is set)
Exited == process \notin alive

\* no handle: return at once
KillNoHandle(c) ==
    /\ pc[c] = "k_entry"
    /\ process = None
    /\ Goto(c, call[c].kret)
    /\ UNCHANGED <<adapterVars, lockVars, restart_hours, base_dir, call, result, trace,
                   envVars, wire, ops>>

\* returncode is set, or send_signal raises ProcessLookupError: the handle
\* is dropped and nothing more is sent
KillAlreadyExited(c) ==
    /\ pc[c] = "k_entry"
    /\ process # None
    /\ Exited
    /\ KillDone(c)

\* SIGTERM is sent; wait up to 5 s for the exit
KillSendTerm(c) ==
    /\ pc[c] = "k_entry"
    /\ process # None
    /\ ~Exited
    /\ Goto(c, "k_term")
    /\ UNCHANGED <<adapterVars, lockVars, restart_hours, base_dir, call, result, trace,
                   envVars, wire, ops>>

\* a variant of KillTermExited that sends SIGKILL to a process that exited
KillTermExitedStillKills(c) ==
    /\ pc[c] = "k_term"
    /\ Exited
    /\ Goto(c, "k_kill")
    /\ UNCHANGED <<adapterVars, lockVars, restart_hours, base_dir, call, result, trace,
                   envVars, wire, ops>>

\* the process exited within the graceful wait (or kill() finds it gone)
KillTermExited(c) ==
    /\ pc[c] = "k_term"
    /\ Exited
    /\ KillDone(c)

\* the graceful wait timed out: SIGKILL is sent; wait up to 3 s
KillSendKill(c) ==
    /\ pc[c] = "k_term"
    /\ ~Exited
    /\ Goto(c, "k_kill")
    /\ UNCHANGED <<adapterVars, lockVars, restart_hours, base_dir, call, result, trace,
                   envVars, wire, ops>>

\* after SIGKILL: the exit is seen, or the second wait times out too; the
\* handle is dropped either way
KillKillWaited(c) ==
    /\ pc[c] = "k_kill"
    /\ KillDone(c)

KillProcess(c) ==
    \/ KillNoHandle(c)
    \/ KillAlreadyExited(c)
    \/ KillSendTerm(c)
    \/ KillTermExited(c)
    \/ KillSendKill(c)
    \/ KillKillWaited(c)

\* ------------------------------------------------------------ the engine
\* the pid a new process gets: one that no running process, handle or
\* connection refers to
FreshPid ==
    LET used == alive \cup {process, ws}
    IN  CHOOSE p \in 1..(Cardinality(used) + 1) :
            p \notin used /\ \A q \in 1..(p - 1) : q \in used

\* _build_command: the model files of the current identity (the port, the
\* provider and the other options never change)
BuildCommand ==
    IF model_dir = NoModel THEN <<>> ELSE DetectModelFiles(base_dir, model_dir).files

\* create_subprocess_exec succeeded: a new process runs and is the handle
Spawned ==
    /\ process' = FreshPid
    /\ alive' = alive \cup {FreshPid}
    /\ serving' = serving \cup {<<FreshPid, BuildCommand>>}


\* the process of the handle exits: killed from outside, crashed, or after a
\* signal.  (A process whose handle was dropped stays in alive: nothing in
\* the adapter can see it any more.)
ProcessExits ==
    /\ process \in alive
    /\ alive' = alive \ {process}
    /\ serving' = {q \in serving : q[1] # process}
    /\ UNCHANGED <<adapterVars, lockVars, restart_hours, base_dir, callerVars, wire, ops>>

\* time passes; the clock is read only by _maybe_proactive_restart, and only
\* when PROACTIVE_RESTART_HOURS > 0
Tick ==
    /\ restart_hours > 0
    /\ uptime # NotStarted
    /\ uptime < MaxUptime
    /\ uptime' = uptime + 1
    /\ UNCHANGED <<state, model_id, model_dir, process, ws, metrics,
                   lockVars, restart_hours, base_dir, callerVars, envVars, wire, ops>>


\* ------------------------------------------------------------ transcribe
\* a guard that checks the state only
GuardStateOnly == state = "loaded"

\* the readiness guard of transcribe
GuardReady == state = "loaded" /\ process # None

\* a decision that does not look at the threshold being 0
ProactiveIgnoresDisabled ==
    /\ uptime # NotStarted
    /\ uptime >= restart_hours

\* _maybe_proactive_restart's decision
ProactiveDue ==
    /\ restart_hours > 0
    /\ uptime # NotStarted
    /\ uptime >= restart_hours

\* guard fails: RuntimeError("Engine not ready"), the finally releases
TranscribeNotReady(c) ==
    /\ pc[c] = "t_guard"
    /\ ~GuardReady
    /\ Return(c, Err("not_ready"))
    /\ Event(c, "not_ready")
    /\ UNCHANGED <<adapterVars, restart_hours, base_dir, envVars, wire, ops>>

\* guard passes: a proactive restart if one is due, else attempt 1
TranscribeGuardPassed(c) ==
    /\ pc[c] = "t_guard"
    /\ GuardReady
    /\ trace' = [trace EXCEPT ![c] =
                    <<IF process \in alive THEN "guard_live" ELSE "guard_dead">>
                    \o (IF ProactiveDue THEN <<"proactive">> ELSE <<>>)]
    /\ IF ProactiveDue
       THEN /\ Goto(c, "r_close")
            /\ call' = [call EXCEPT ![c].m0 = metrics, ![c].rkind = "proactive"]
       ELSE /\ Goto(c, "a_conn")
            /\ call' = [call EXCEPT ![c].m0 = metrics, ![c].attempt = 1]
    /\ UNCHANGED <<adapterVars, lockVars, restart_hours, base_dir, result, envVars, wire, ops>>

\* ------------------------------------------------ _restart_subprocess
\* close the connection, then stop the old process
RestartClose(c) ==
    /\ pc[c] = "r_close"
    /\ ws' = None
    /\ wire' = Closed(c)
    /\ Goto(c, "k_entry")
    /\ call' = [call EXCEPT ![c].kret = "r_start"]
    /\ UNCHANGED <<state, model_id, model_dir, process, uptime,
                   metrics, lockVars, restart_hours, base_dir, result, trace, envVars, ops>>

\* start the engine again with the same model files
RestartSpawn(c) ==
    /\ pc[c] = "r_start"
    /\ Spawned
    /\ Goto(c, "r_ready")
    /\ UNCHANGED <<state, model_id, model_dir, ws, uptime, metrics,
                   lockVars, restart_hours, base_dir, call, result, trace, wire, ops>>

\* create_subprocess_exec raises: the exception leaves transcribe
RestartSpawnFails(c) ==
    /\ pc[c] = "r_start"
    /\ Return(c, Err("spawn_error"))
    /\ Event(c, "spawn_fail")
    /\ UNCHANGED <<adapterVars, restart_hours, base_dir, envVars, wire, ops>>

\* the attempt that follows a restart
AttemptAfter(kind) == IF kind = "proactive" THEN 1 ELSE 2

\* _wait_for_ready returned True: the handshake reached the new process
RestartReady(c) ==
    /\ pc[c] = "r_ready"
    /\ process \in alive
    /\ uptime' = 0
    /\ metrics' = RecordRestart(metrics)
    /\ state' = "loaded"
    /\ Event(c, "restart_ok")
    /\ Goto(c, "a_conn")
    /\ call' = [call EXCEPT ![c].attempt = AttemptAfter(call[c].rkind)]
    /\ UNCHANGED <<model_id, model_dir, process, ws, lockVars, restart_hours, base_dir,
                   result, envVars, wire, ops>>

\* _wait_for_ready returned False (exit seen, or 30 s over): stop the process
RestartNotReady(c) ==
    /\ pc[c] = "r_ready"
    /\ Goto(c, "k_entry")
    /\ call' = [call EXCEPT ![c].kret = "r_failed"]
    /\ UNCHANGED <<adapterVars, lockVars, restart_hours, base_dir, result, trace,
                   envVars, wire, ops>>

\* a failed restart that is counted as a restart all the same
RestartFailedIsCounted(c) ==
    /\ pc[c] = "r_failed"
    /\ state' = "error"
    /\ metrics' = RecordRestart(metrics)
    /\ Return(c, Err("restart_failed"))
    /\ Event(c, "restart_fail")
    /\ UNCHANGED <<model_id, model_dir, process, ws, uptime,
                   restart_hours, base_dir, envVars, wire, ops>>

\* ... then state error and RuntimeError("Subprocess restart failed")
RestartFailed(c) ==
    /\ pc[c] = "r_failed"
    /\ state' = "error"
    /\ Return(c, Err("restart_failed"))
    /\ Event(c, "restart_fail")
    /\ UNCHANGED <<model_id, model_dir, process, ws, uptime,
                   metrics, restart_hours, base_dir, envVars, wire, ops>>

\* ------------------------------------------------------ one wire attempt
AttemptEvent(c, what) ==
    Event(c, IF call[c].attempt = 1 THEN "a1_" \o what ELSE "a2_" \o what)

\* an exception leaves _do_transcribe: record_error, then close the connection
AttemptRaised(c) ==
    /\ metrics' = RecordError(metrics)
    /\ AttemptEvent(c, "fail")
    /\ Goto(c, "a_close")
    /\ UNCHANGED <<state, model_id, model_dir, process, uptime,
                   lockVars, restart_hours, base_dir, result, envVars, ops>>

\* _ensure_connection with a connection in the slot: ping() returns.  Only
\* the sending of the ping is awaited, not the pong, so the ping can pass on
\* a connection whose peer has just exited.
PingOk(c) ==
    /\ pc[c] = "a_conn"
    /\ ws # None
    /\ Goto(c, "a_send")
    /\ UNCHANGED <<adapterVars, lockVars, restart_hours, base_dir, call, result, trace,
                   envVars, wire, ops>>

\* a variant of PingFails that goes on to connect without closing
PingFailsLeavesOpen(c) ==
    /\ pc[c] = "a_conn"
    /\ ws # None
    /\ Goto(c, "a_open")
    /\ UNCHANGED <<adapterVars, lockVars, restart_hours, base_dir, call, result, trace,
                   envVars, wire, ops>>

\* the ping fails or times out: close, then reconnect
PingFails(c) ==
    /\ pc[c] = "a_conn"
    /\ ws # None
    /\ ws' = None
    /\ wire' = Closed(c)
    /\ Goto(c, "a_open")
    /\ UNCHANGED <<state, model_id, model_dir, process, uptime,
                   metrics, lockVars, restart_hours, base_dir, call, result, trace, envVars, ops>>

Connecting(c) == pc[c] = "a_open" \/ (pc[c] = "a_conn" /\ ws = None)

\* websockets.connect succeeds: the engine process accepts
ConnectOk(c) ==
    /\ Connecting(c)
    /\ process \in alive
    /\ ws' = process
    /\ Goto(c, "a_send")
    /\ UNCHANGED <<state, model_id, model_dir, process, uptime,
                   metrics, lockVars, restart_hours, base_dir, call, result, trace,
                   envVars, wire, ops>>

\* websockets.connect fails or exceeds CONNECT_TIMEOUT
ConnectFails(c) ==
    /\ Connecting(c)
    /\ AttemptRaised(c)
    /\ UNCHANGED <<ws, call, wire>>

\* one ws.send of the header+samples buffer, chunk by chunk
SendChunk(c) ==
    /\ pc[c] = "a_send"
    /\ wire' = Written(<<c, "data",
                          Chunk(Buf(call[c].rate, call[c].samples), call[c].sent)>>)
    /\ IF ~HasChunk(Buf(call[c].rate, call[c].samples), call[c].sent + 1)
       THEN Goto(c, "a_recv") /\ call' = [call EXCEPT ![c].sent = 0]
       ELSE call' = [call EXCEPT ![c].sent = @ + 1] /\ UNCHANGED pc
    /\ UNCHANGED <<adapterVars, lockVars, restart_hours, base_dir, result, trace, envVars, ops>>

SendFails(c) ==
    /\ pc[c] = "a_send"
    /\ AttemptRaised(c)
    /\ call' = [call EXCEPT ![c].sent = 0]
    /\ UNCHANGED <<ws, wire>>

\* ws.recv() returns the engine's answer
RecvOk(c) ==
    /\ pc[c] = "a_recv"
    /\ ws \in alive
    /\ \E r \in Responses : call' = [call EXCEPT ![c].resp = r]
    /\ Goto(c, "a_done")
    /\ UNCHANGED <<adapterVars, lockVars, restart_hours, base_dir, result, trace, envVars, wire, ops>>

\* ws.recv() raises or exceeds RECV_TIMEOUT
RecvFails(c) ==
    /\ pc[c] = "a_recv"
    /\ AttemptRaised(c)
    /\ UNCHANGED <<ws, call, wire>>

\* a variant of DoneOk that returns the text without sending "Done"
DoneOkWithoutTerminator(c) ==
    /\ pc[c] = "a_done"
    /\ ~ParseRaises(call[c].resp)
    /\ metrics' = RecordSuccess(metrics)
    /\ AttemptEvent(c, "ok")
    /\ Return(c, Ok(ParseText(call[c].resp)))
    /\ UNCHANGED <<state, model_id, model_dir, process, ws, uptime,
                   restart_hours, base_dir, envVars, wire, ops>>

\* "Done" is sent and the answer parses: record_success, return the text
DoneOk(c) ==
    /\ pc[c] = "a_done"
    /\ ~ParseRaises(call[c].resp)
    /\ wire' = Written(<<c, "Done">>)
    /\ metrics' = RecordSuccess(metrics)
    /\ AttemptEvent(c, "ok")
    /\ Return(c, Ok(ParseText(call[c].resp)))
    /\ UNCHANGED <<state, model_id, model_dir, process, ws, uptime,
                   restart_hours, base_dir, envVars, ops>>

\* "Done" is sent and parsing the answer raises
DoneParseRaises(c) ==
    /\ pc[c] = "a_done"
    /\ ParseRaises(call[c].resp)
    /\ wire' = Written(<<c, "Done">>)
    /\ AttemptRaised(c)
    /\ call' = [call EXCEPT ![c].resp = NoResponse]
    /\ UNCHANGED ws

\* sending "Done" raises
DoneFails(c) ==
    /\ pc[c] = "a_done"
    /\ AttemptRaised(c)
    /\ call' = [call EXCEPT ![c].resp = NoResponse]
    /\ UNCHANGED <<ws, wire>>

\* variants of RetryAfter: no recovery at all, recovery without end
NeverRetry(attempt) == FALSE
AlwaysRetry(attempt) == TRUE

\* whether a failed attempt is followed by restart and retry
RetryAfter(attempt) == attempt = 1

\* a variant of AttemptClose in which exhausting the retry marks the adapter
AttemptCloseMarksError(c) ==
    /\ pc[c] = "a_close"
    /\ ws' = None
    /\ wire' = Closed(c)
    /\ IF RetryAfter(call[c].attempt)
       THEN /\ Goto(c, "k_entry")
            /\ call' = [call EXCEPT ![c].kret = "r_start", ![c].rkind = "reactive"]
            /\ UNCHANGED <<result, lockVars, state>>
       ELSE Return(c, Err("retry_failed")) /\ state' = "error"
    /\ UNCHANGED <<model_id, model_dir, process, uptime,
                   metrics, restart_hours, base_dir, trace, envVars, ops>>

\* a variant of AttemptClose that leaves the connection in the slot when the
\* retry is exhausted
AttemptKeepsConnection(c) ==
    /\ pc[c] = "a_close"
    /\ IF RetryAfter(call[c].attempt)
       THEN /\ ws' = None
            /\ wire' = Closed(c)
            /\ Goto(c, "k_entry")
            /\ call' = [call EXCEPT ![c].kret = "r_start", ![c].rkind = "reactive"]
            /\ UNCHANGED <<result, lockVars>>
       ELSE Return(c, Err("retry_failed")) /\ UNCHANGED <<ws, wire>>
    /\ UNCHANGED <<state, model_id, model_dir, process, uptime,
                   metrics, restart_hours, base_dir, trace, envVars, ops>>

\* the except handler after record_error: close the connection; after
\* attempt 1 restart and retry, after attempt 2 raise "failed after retry"
AttemptClose(c) ==
    /\ pc[c] = "a_close"
    /\ ws' = None
    /\ wire' = Closed(c)
    /\ IF RetryAfter(call[c].attempt)
       THEN /\ Goto(c, "k_entry")
            /\ call' = [call EXCEPT ![c].kret = "r_start", ![c].rkind = "reactive"]
            /\ UNCHANGED <<result, lockVars>>
       ELSE Return(c, Err("retry_failed"))
    /\ UNCHANGED <<state, model_id, model_dir, process, uptime,
                   metrics, restart_hours, base_dir, trace, envVars, ops>>

Transcribe(c) ==
    \/ TranscribeNotReady(c)
    \/ TranscribeGuardPassed(c)
    \/ RestartClose(c)
    \/ RestartSpawn(c)
    \/ RestartSpawnFails(c)
    \/ RestartReady(c)
    \/ RestartNotReady(c)
    \/ RestartFailed(c)
    \/ PingOk(c)
    \/ PingFails(c)
    \/ ConnectOk(c)
    \/ ConnectFails(c)
    \/ SendChunk(c)
    \/ SendFails(c)
    \/ RecvOk(c)
    \/ RecvFails(c)
    \/ DoneOk(c)
    \/ DoneParseRaises(c)
    \/ DoneFails(c)
    \/ AttemptClose(c)


\* ------------------------------------------------------------ load_model
\* a first check that never finds the model loaded
NeverAlreadyLoaded(m) == FALSE

\* load_model's first check: the requested model is the loaded one
AlreadyLoaded(m) == model_id = m /\ state = "loaded"

\* load_model's second check: another model is held and is unloaded first
Switching(m) == model_id # NoModel /\ model_id # m

\* load_model from `self._state = "loading"` to create_subprocess_exec, run
\* without an await: reset the metrics, find and validate the model files.
\* mid and mdir are the identity held when this part starts.
Resolve(c, mid, mdir) ==
    LET d == FindModelDir(base_dir, call[c].arg) IN
    /\ metrics' = ResetMetrics
    /\ IF d = NoModel
       THEN /\ state' = "error"
            /\ model_id' = mid /\ model_dir' = mdir
            /\ Return(c, Err("not_found"))
       ELSE IF ~DetectModelFiles(base_dir, d).ok
       THEN /\ state' = "error"
            /\ model_id' = mid /\ model_dir' = mdir
            /\ Return(c, Err("incomplete"))
       ELSE /\ state' = "loading"
            /\ model_id' = call[c].arg /\ model_dir' = d
            /\ Goto(c, "l_start")
            /\ UNCHANGED <<call, result, lockVars>>

LoadNoop(c) ==
    /\ pc[c] = "l_entry"
    /\ AlreadyLoaded(call[c].arg)
    /\ Return(c, Ok("loaded"))
    /\ Event(c, "noop")
    /\ UNCHANGED <<adapterVars, restart_hours, base_dir, envVars, wire, ops>>

LoadSwitch(c) ==
    /\ pc[c] = "l_entry"
    /\ ~AlreadyLoaded(call[c].arg)
    /\ Switching(call[c].arg)
    /\ Goto(c, "u_close")
    /\ Event(c, "switch")
    /\ UNCHANGED <<adapterVars, lockVars, restart_hours, base_dir, call, result, envVars, wire, ops>>

LoadResolve(c) ==
    /\ pc[c] = "l_entry"
    /\ ~AlreadyLoaded(call[c].arg)
    /\ ~Switching(call[c].arg)
    /\ Resolve(c, model_id, model_dir)
    /\ Event(c, "resolve")
    /\ UNCHANGED <<process, ws, uptime, restart_hours, base_dir, envVars, wire, ops>>

LoadSpawn(c) ==
    /\ pc[c] = "l_start"
    /\ Spawned
    /\ Goto(c, "l_ready")
    /\ UNCHANGED <<state, model_id, model_dir, ws, uptime, metrics,
                   lockVars, restart_hours, base_dir, call, result, trace, wire, ops>>

\* create_subprocess_exec raises: the exception leaves load_model
LoadSpawnFails(c) ==
    /\ pc[c] = "l_start"
    /\ Return(c, Err("spawn_error"))
    /\ Event(c, "spawn_fail")
    /\ UNCHANGED <<adapterVars, restart_hours, base_dir, envVars, wire, ops>>

\* _wait_for_ready returned True
LoadReady(c) ==
    /\ pc[c] = "l_ready"
    /\ process \in alive
    /\ uptime' = 0
    /\ state' = "loaded"
    /\ Return(c, Ok("loaded"))
    /\ Event(c, "ready")
    /\ UNCHANGED <<model_id, model_dir, process, ws, metrics, restart_hours, base_dir,
                   envVars, wire, ops>>

\* the sizes of what an engine that exits has written to its stderr
StderrSizes == {0, 5000}

\* stderr.read(4096)
StderrLimit == 4096

\* _wait_for_ready returned False: the 30 s are over, or the exit of the
\* process was seen and up to 4096 bytes of its stderr were read (call[c].stderr
\* keeps their number; the code logs them).  Then stop the process.
LoadNotReady(c) ==
    /\ pc[c] = "l_ready"
    /\ Goto(c, "k_entry")
    /\ \/ call' = [call EXCEPT ![c].kret = "l_failed"]
       \/ /\ Exited
          /\ \E n \in StderrSizes :
                call' = [call EXCEPT ![c].kret = "l_failed",
                                     ![c].stderr = <<Min(n, StderrLimit)>>]
    /\ UNCHANGED <<adapterVars, lockVars, restart_hours, base_dir, result, trace,
                   envVars, wire, ops>>

\* RuntimeError("WebSocket server failed to start within 30s (PID=...)"):
\* the message names the pid of the handle, None standing for '?'
StartFailure(p) == [ok |-> FALSE, val |-> "start_failed", pid |-> p]

\* ... then state error and the RuntimeError, made from the handle as
\* _kill_process left it
LoadFailed(c) ==
    /\ pc[c] = "l_failed"
    /\ state' = "error"
    /\ Return(c, StartFailure(process))
    /\ Event(c, "not_ready")
    /\ UNCHANGED <<model_id, model_dir, process, ws, uptime,
                   metrics, restart_hours, base_dir, envVars, wire, ops>>

\* ------------------------------------------------ unload_model, _do_unload
UnloadClose(c) ==
    /\ pc[c] = "u_close"
    /\ ws' = None
    /\ wire' = Closed(c)
    /\ Goto(c, "k_entry")
    /\ call' = [call EXCEPT ![c].kret = "u_clear"]
    /\ Event(c, IF state = "unloaded" THEN "was_unloaded" ELSE "was_in_use")
    /\ UNCHANGED <<state, model_id, model_dir, process, uptime,
                   metrics, lockVars, restart_hours, base_dir, result, envVars, ops>>

\* a tail of _do_unload that forgets the model identity
UnloadKeepsIdentity(c) ==
    /\ pc[c] = "u_clear"
    /\ call[c].op = "unload_model"
    /\ state' = "unloaded"
    /\ uptime' = NotStarted
    /\ Return(c, Ok("unloaded"))
    /\ UNCHANGED <<model_id, model_dir, process, ws, metrics, restart_hours, base_dir,
                   trace, envVars, wire, ops>>

\* the tail of _do_unload inside unload_model, which then returns
UnloadClear(c) ==
    /\ pc[c] = "u_clear"
    /\ call[c].op = "unload_model"
    /\ model_id' = NoModel
    /\ model_dir' = NoModel
    /\ state' = "unloaded"
    /\ uptime' = NotStarted
    /\ Return(c, Ok("unloaded"))
    /\ UNCHANGED <<process, ws, metrics, restart_hours, base_dir, trace, envVars, wire, ops>>

\* the tail of _do_unload inside load_model, which goes on to resolve
SwitchClear(c) ==
    /\ pc[c] = "u_clear"
    /\ call[c].op = "load_model"
    /\ uptime' = NotStarted
    /\ Resolve(c, NoModel, NoModel)
    /\ UNCHANGED <<process, ws, restart_hours, base_dir, trace, envVars, wire, ops>>

LoadModel(c) ==
    \/ LoadNoop(c)
    \/ LoadSwitch(c)
    \/ LoadResolve(c)
    \/ SwitchClear(c)
    \/ LoadSpawn(c)
    \/ LoadSpawnFails(c)
    \/ LoadReady(c)
    \/ LoadNotReady(c)
    \/ LoadFailed(c)

UnloadModel(c) ==
    \/ UnloadClose(c)
    \/ UnloadClear(c)

\* a get_status that reports the stored state as it is
GetStatusStored ==
    [model_id |-> model_id,
     state |-> state,
     health |-> metrics,
     pid |-> IF process # None /\ process \in alive THEN process ELSE None,
     error |-> FALSE,
     model_path |-> model_dir,
     persistent_connection |-> IF ws # None THEN "open" ELSE "closed",
     has_uptime |-> uptime # NotStarted]

\* ------------------------------------------------------------ get_status
\* the dict get_status returns, from the fields as they are now; pid None
\* stands for the missing "pid" key
GetStatus ==
    LET live == process # None /\ ~Exited IN
    [model_id |-> model_id,
     state |-> IF ~live /\ state = "loaded" THEN "error" ELSE state,
     health |-> metrics,
     pid |-> IF live THEN process ELSE None,
     error |-> ~live /\ state = "loaded",
     model_path |-> model_dir,
     persistent_connection |-> IF ws # None THEN "open" ELSE "closed",
     has_uptime |-> uptime # NotStarted]

\* a get_status that writes the downgraded state back
GetStatusStoresDowngrade(c) ==
    /\ pc[c] = "idle"
    /\ ops < MaxOps
    /\ ops' = ops + 1
    /\ call' = [call EXCEPT ![c] = [NoCall EXCEPT !.op = "get_status"]]
    /\ state' = GetStatus.state
    /\ Goto(c, "done")
    /\ result' = [result EXCEPT ![c] = Ok(GetStatus)]
    /\ UNCHANGED <<model_id, model_dir, process, ws, uptime, metrics,
                   lockVars, restart_hours, base_dir, trace, envVars, wire>>

\* get_status takes no lock and has no await: it runs at once, whatever the
\* other callers are doing, and only reads
CallGetStatus(c) ==
    /\ pc[c] = "idle"
    /\ ops < MaxOps
    /\ ops' = ops + 1
    /\ call' = [call EXCEPT ![c] = [NoCall EXCEPT !.op = "get_status"]]
    /\ Goto(c, "done")
    /\ result' = [result EXCEPT ![c] = Ok(GetStatus)]
    /\ UNCHANGED <<adapterVars, lockVars, restart_hours, base_dir, trace, envVars, wire>>

\* ------------------------------------------------------- specification
Next ==
    \/ \E c \in Callers : CallGetStatus(c)
    \/ \E c \in Callers : CallTranscribe(c)
    \/ \E c \in Callers : CallLoadModel(c)
    \/ \E c \in Callers : CallUnloadModel(c)
    \/ \E c \in Callers : WaitAcquire(c)
    \/ \E c \in Callers : LockTimeout(c)
    \/ \E c \in Callers : Leave(c)
    \/ \E c \in Callers : Transcribe(c)
    \/ \E c \in Callers : LoadModel(c)
    \/ \E c \in Callers : UnloadModel(c)
    \/ \E c \in Callers : KillProcess(c)
    \/ ProcessExits
    \/ Tick

Spec == Init /\ [][Next]_vars

\* The steps of caller c that the code bounds in time or that do not wait at
\* all: every await under wait_for or under a deadline (lock hand-over, ping,
\* connect, recv, the exit waits of _kill_process, _wait_for_ready), the
\* close of the connection, the start of a process, and what runs between
\* awaits.  The ws.send of the data chunks is awaited without a timeout: it
\* is bounded only once the engine has exited, which closes its socket.
BoundedStep(c) ==
    \/ WaitAcquire(c)
    \/ Leave(c)
    \/ KillProcess(c)
    \/ LoadModel(c)
    \/ UnloadModel(c)
    \/ (pc[c] # "a_send" \/ ws \notin alive) /\ Transcribe(c)

\* the adapter on an event loop that keeps running its callers
FairSpec == Spec /\ \A c \in Callers : WF_vars(BoundedStep(c))

\* ------------------------------------------------------ _wait_for_ready
\* One run of _wait_for_ready, statement by statement.  Spec takes the run as
\* one step with its outcome (LoadReady, LoadNotReady, RestartReady,
\* RestartNotReady); ReadySpec starts where load_model has started the engine
\* and follows the polling loop.  Times are in 1/64 s, which makes every
\* delay of the back-off a whole number.
Seconds(n) == 64 * n

\* timeout: float = 30.0
ReadyTimeout == Seconds(30)

\* delay = 0.5
InitialDelay == Seconds(1) \div 2

\* the cap in min(delay * 1.5, 3.0)
MaxDelay == Seconds(3)

\* a back-off without the cap
NextDelayUncapped(d) == (d * 3) \div 2

\* delay = min(delay * 1.5, 3.0)
NextDelay(d) == Min((d * 3) \div 2, MaxDelay)

\* how long a handshake that fails takes: refused at once, or open_timeout=2
HandshakeTimes == {0, Seconds(2)}

InReadyWait(c) == pc[c] \in {"l_ready", "r_ready"}

\* deadline = now + timeout; delay = 0.5
PollEnter(c) ==
    /\ InReadyWait(c)
    /\ call[c].ready = "none"
    /\ call' = [call EXCEPT ![c].ready = "pending", ![c].delay = InitialDelay,
                            ![c].waited = 0]
    /\ UNCHANGED <<adapterVars, lockVars, restart_hours, base_dir, pc, result, trace,
                   envVars, wire, ops>>

Polling(c) ==
    /\ InReadyWait(c)
    /\ call[c].ready = "pending"
    /\ call[c].waited < ReadyTimeout

\* top of the loop: returncode is set; read up to 4096 bytes of stderr, log,
\* return False
PollExitSeen(c) ==
    /\ Polling(c)
    /\ process # None /\ Exited
    /\ \E n \in StderrSizes :
          call' = [call EXCEPT ![c].ready = "no",
                               ![c].stderr = <<Min(n, StderrLimit)>>]
    /\ UNCHANGED <<adapterVars, lockVars, restart_hours, base_dir, pc, result, trace,
                   envVars, wire, ops>>

\* the handshake: connect, send "Done", close; the engine accepts: return True
PollHandshakeOk(c) ==
    /\ Polling(c)
    /\ process \in alive
    /\ call' = [call EXCEPT ![c].ready = "yes"]
    /\ UNCHANGED <<adapterVars, lockVars, restart_hours, base_dir, pc, result, trace,
                   envVars, wire, ops>>

\* the handshake raises: sleep(delay), then the next delay
PollHandshakeFails(c) ==
    /\ Polling(c)
    /\ ~(process # None /\ Exited)
    /\ \E t \in HandshakeTimes :
          call' = [call EXCEPT ![c].waited = @ + t + call[c].delay,
                               ![c].delay = NextDelay(@)]
    /\ UNCHANGED <<adapterVars, lockVars, restart_hours, base_dir, pc, result, trace,
                   envVars, wire, ops>>

\* the loop condition fails: the deadline has passed, return False
PollTimeout(c) ==
    /\ InReadyWait(c)
    /\ call[c].ready = "pending"
    /\ call[c].waited >= ReadyTimeout
    /\ call' = [call EXCEPT ![c].ready = "no"]
    /\ UNCHANGED <<adapterVars, lockVars, restart_hours, base_dir, pc, result, trace,
                   envVars, wire, ops>>

WaitForReady(c) ==
    \/ PollEnter(c)
    \/ PollExitSeen(c)
    \/ PollHandshakeOk(c)
    \/ PollHandshakeFails(c)
    \/ PollTimeout(c)

\* load_model has resolved a model and started the engine for it, and is
\* about to call _wait_for_ready
ReadyInit ==
    \E c \in Callers, m \in {IdA, IdB} :
        /\ state = "loading"
        /\ model_id = m
        /\ model_dir = FindModelDir(BaseDir, m)
        /\ process = 1
        /\ ws = None
        /\ uptime = NotStarted
        /\ metrics = ResetMetrics
        /\ locked = TRUE
        /\ waiters = <<>>
        /\ restart_hours \in RestartHoursChoices
        /\ base_dir = BaseDir
        /\ pc = [d \in Callers |-> IF d = c THEN "l_ready" ELSE "idle"]
        /\ call = [d \in Callers |->
                      IF d = c
                      THEN [NoCall EXCEPT !.op = "load_model", !.arg = m,
                                          !.gate = TRUE]
                      ELSE NoCall]
        /\ result = [d \in Callers |-> NoResult]
        /\ trace = [d \in Callers |-> IF d = c THEN <<"resolve">> ELSE <<>>]
        /\ alive = {1}
        /\ serving = {<<1, DetectModelFiles(BaseDir, FindModelDir(BaseDir, m)).files>>}
        /\ wire = <<>>
        /\ ops = 1

ReadyNext ==
    \/ \E c \in Callers : WaitForReady(c)
    \/ ProcessExits

\* the event loop keeps running the poll: every await in it is bounded
\* (open_timeout=2, close_timeout=2, the 1 s of the stderr read, the sleep)
ReadySpec ==
    ReadyInit /\ [][ReadyNext]_vars /\ \A c \in Callers : WF_vars(WaitForReady(c))

\* ------------------------------------------------------- list_available
\* whether the name d starts with the prefix p
StartsWith(d, p) == Len(d) >= Len(p) /\ SubSeq(d, 1, Len(p)) = p

\* the id list_available derives from a directory name: the first of the
\* prefixes sherpa-onnx-nemo- and sherpa-onnx- that the name starts with is
\* cut off
CleanId(d) ==
    IF StartsWith(d, NemoPrefix) THEN SubSeq(d, Len(NemoPrefix) + 1, Len(d))
    ELSE IF StartsWith(d, PlainPrefix) THEN SubSeq(d, Len(PlainPrefix) + 1, Len(d))
    ELSE d

\* list_available: one entry for every directory that holds tokens.txt (the
\* entries as a set: their order plays no part in what is checked)
ListAvailable(fs) ==
    {[id |-> CleanId(d), directory |-> d] : d \in {e \in DOMAIN fs : HasTokens(fs, e)}}

\* the directory names a layout is made of, and what a directory holds: it
\* is missing, it lacks tokens.txt, or it is a complete model
LayoutNames ==
    {p \o m : p \in {<<>>, PlainPrefix, NemoPrefix}, m \in {IdA, IdB}}

Layouts ==
    {[d \in {e \in LayoutNames : kind[e] # "missing"} |->
          IF kind[d] = "model" THEN {TokensFile} \cup QuantFiles ELSE QuantFiles]
       : kind \in [LayoutNames -> {"missing", "notokens", "model"}]}

\* the adapter as constructed, over any of the layouts
ListInit ==
    /\ state = "unloaded"
    /\ model_id = NoModel
    /\ model_dir = NoModel
    /\ process = None
    /\ ws = None
    /\ uptime = NotStarted
    /\ metrics = ResetMetrics
    /\ locked = FALSE
    /\ waiters = <<>>
    /\ restart_hours = 0
    /\ base_dir \in Layouts
    /\ pc = [c \in Callers |-> "idle"]
    /\ call = [c \in Callers |-> NoCall]
    /\ result = [c \in Callers |-> NoResult]
    /\ trace = [c \in Callers |-> <<>>]
    /\ alive = {}
    /\ serving = {}
    /\ wire = <<>>
    /\ ops = 0

\* list_available is called and returns the listing
CallListAvailable(c) ==
    /\ pc[c] = "idle"
    /\ call' = [call EXCEPT ![c] = [NoCall EXCEPT !.op = "list_available"]]
    /\ Goto(c, "done")
    /\ result' = [result EXCEPT ![c] = Ok(ListAvailable(base_dir))]
    /\ UNCHANGED <<adapterVars, lockVars, restart_hours, base_dir, trace,
                   envVars, wire, ops>>

\* the model-switch endpoint has found the id of an entry in the listing;
\* load_model resolves that id with _find_model_dir
ResolveListed(c) ==
    /\ pc[c] = "done"
    /\ call[c].op = "list_available"
    /\ \E e \in result[c].val :
          /\ call' = [call EXCEPT ![c].op = "resolve", ![c].arg = e.id]
          /\ result' = [result EXCEPT ![c] =
                           [ok |-> FindModelDir(base_dir, e.id) # NoModel,
                            val |-> FindModelDir(base_dir, e.id),
                            listed |-> e.directory]]
    /\ UNCHANGED <<adapterVars, lockVars, restart_hours, base_dir, pc, trace,
                   envVars, wire, ops>>

ListNext ==
    \/ \E c \in Callers : CallListAvailable(c)
    \/ \E c \in Callers : ResolveListed(c)

ListSpec == ListInit /\ [][ListNext]_vars

\* ============================================================ properties
\* the labels of transcribe's body after the readiness guard
TranscribeLabels ==
    {"r_close", "r_start", "r_ready", "r_failed",
     "a_conn", "a_open", "a_send", "a_recv", "a_done", "a_close",
     "k_entry", "k_term", "k_kill"}

\* caller c is in a transcribe call between passing the guard and returning
PastGuard(c) == call[c].op = "transcribe" /\ pc[c] \in TranscribeLabels

\* caller c's call of operation o has its result and has not yet left
Finished(c, o) == call[c].op = o /\ pc[c] = "done"

\* the step in which caller c's call gets its result
Returns(c) == pc[c] # "done" /\ pc'[c] = "done"

Has(c, e) == \E i \in DOMAIN trace[c] : trace[c][i] = e

\* trace[c] ends with the events of seq
EndsWith(c, seq) ==
    /\ Len(trace[c]) >= Len(seq)
    /\ SubSeq(trace[c], Len(trace[c]) - Len(seq) + 1, Len(trace[c])) = seq

HoldsGate(c) == call[c].gate

\* ---------------------------------------------------------------- C1
\* C1: at most one transcribe, load_model or unload_model call holds the gate
\* at any time, the lock is held exactly while some call holds it, and a call
\* is at a label of its body (the only labels from which state, model
\* identity, handle, connection and metrics are changed) only while it holds
\* the gate.
C1_GateSerialises ==
    /\ \A c, d \in Callers : HoldsGate(c) /\ HoldsGate(d) => c = d
    /\ locked <=> \E c \in Callers : HoldsGate(c)
    /\ \A c \in Callers :
          InBody(c) \/ (pc[c] = "done" /\ call[c].op # "get_status"
                                          /\ result[c] # Err("lock_timeout"))
              => HoldsGate(c)

\* one call is sending inside its critical section while another one queues
C1_Witness ==
    \E c, d \in Callers :
        /\ c # d
        /\ pc[c] = "a_send" /\ HoldsGate(c)
        /\ pc[d] = "wait" /\ ~HoldsGate(d)

\* ---------------------------------------------------------------- C2
Terminators == {"Done", "close"}

LastWritten == wire[Len(wire)]

\* caller c has put part of a request on the wire and not yet its terminator
MidStream(c) ==
    \/ pc[c] = "a_send" /\ call[c].sent > 0
    \/ pc[c] \in {"a_recv", "a_done"}

\* C2: the messages of two transcribe calls are never interleaved on the wire:
\* a call writes its first chunk only when the wire is empty or the last
\* message is a terminator ("Done") or the close of the connection, and while
\* a call is in mid-request the last message on the wire is its own data.
C2_NoInterleaving ==
    \A c \in Callers :
        /\ pc[c] = "a_send" /\ call[c].sent = 0
              => wire = <<>> \/ LastWritten[2] \in Terminators
        /\ MidStream(c) => wire # <<>> /\ LastWritten[1] = c /\ LastWritten[2] = "data"

\* a call is about to write its first chunk right after another call's
\* terminator
C2_Witness ==
    \E c, d \in Callers :
        /\ c # d
        /\ pc[c] = "a_send" /\ call[c].sent = 0
        /\ wire # <<>> /\ LastWritten = <<d, "Done">>

\* ---------------------------------------------------------------- C3
C3_Step(c) ==
    PastGuard(c) =>
        /\ model_id' = model_id
        /\ model_dir' = model_dir
        /\ process' # process =>
              /\ pc'[c] # pc[c]
              /\ pc[c] \in {"k_entry", "k_term", "k_kill", "r_start"}

\* C3: while a transcribe call is between its readiness guard and its
\* return, no step changes the model identity, and the subprocess handle is
\* changed only by that call's own stop and start steps.
C3_NoSwitchDuringTranscribe == [][\A c \in Callers : C3_Step(c)]_vars

\* a transcribe call has restarted the subprocess itself while a switch to
\* another model is queued behind it
C3_Witness ==
    \E c, d \in Callers :
        /\ PastGuard(c) /\ Has(c, "restart_ok")
        /\ pc[d] = "wait" /\ call[d].op = "load_model" /\ call[d].arg # model_id

\* ---------------------------------------------------------------- C4
\* the step of caller c that leaves the readiness guard: with ready it goes
\* on to a restart or an attempt, without it returns the not-ready error and
\* changes nothing
C4_GuardStep(c, ready) ==
    pc[c] = "t_guard" /\ pc'[c] # "t_guard" =>
        IF ready
        THEN pc'[c] \in {"r_close", "a_conn"}
        ELSE /\ pc'[c] = "done"
             /\ result'[c] = Err("not_ready")
             /\ UNCHANGED <<state, metrics, process, ws>>

\* C4 as stated: transcribe proceeds only if state is loaded and a handle is
\* present whose process has no exit code, and otherwise returns a not-ready
\* error with state, metrics, handle and connection unchanged.
C4_AsStated ==
    [][\A c \in Callers :
          C4_GuardStep(c, state = "loaded" /\ process # None /\ process \in alive)]_vars

\* C4: transcribe proceeds exactly if state is loaded and a handle is present,
\* whether or not its process has exited; otherwise it returns a not-ready
\* error with state, metrics, handle and connection unchanged.
C4_GuardChecksHandleOnly ==
    [][\A c \in Callers :
          C4_GuardStep(c, state = "loaded" /\ process # None)]_vars

\* a transcribe call has passed the guard although the process had exited
C4_Witness ==
    \E c \in Callers : PastGuard(c) /\ trace[c][1] = "guard_dead"

\* ---------------------------------------------------------------- C5
\* the transcribe call of c found the process dead at its guard, and nothing
\* went wrong with the process it started: no restart failed, and the first
\* attempt after the restart did not fail
C5_Case(c) ==
    /\ Finished(c, "transcribe")
    /\ trace[c] # <<>> /\ trace[c][1] = "guard_dead"
    /\ ~Has(c, "restart_fail") /\ ~Has(c, "spawn_fail") /\ ~Has(c, "a2_fail")
    /\ Has(c, "proactive") => ~Has(c, "a1_fail")

\* C5: a transcribe call that finds the subprocess of a loaded adapter dead,
\* and whose restarted subprocess becomes ready and answers, returns a
\* transcription, has raised the restart counter by exactly 1, and leaves
\* state loaded.
C5_RecoversFromExternalKill ==
    \A c \in Callers :
        C5_Case(c) =>
            /\ result[c].ok
            /\ metrics.subprocess_restart_count
                 = call[c].m0.subprocess_restart_count + 1
            /\ state = "loaded"

\* such a call has returned its text after attempt 1 failed on the dead process
C5_Witness ==
    \E c \in Callers :
        /\ C5_Case(c)
        /\ trace[c] = <<"guard_dead", "a1_fail", "restart_ok", "a2_ok">>
        /\ result[c].ok

\* ---------------------------------------------------------------- C6
\* the transcribe call of c has ended after attempt 1 failed, the restart
\* succeeded and attempt 2 failed, and the restarted process is dead
C6_Case(c) ==
    /\ Finished(c, "transcribe")
    /\ EndsWith(c, <<"a1_fail", "restart_ok", "a2_fail">>)
    /\ Exited

\* C6 as stated: in that case transcribe fails with the terminal error and
\* the adapter's state is error.
C6_AsStated ==
    \A c \in Callers :
        C6_Case(c) => result[c] = Err("retry_failed") /\ state = "error"

\* C6: in that case transcribe fails with the terminal error; the stored
\* state stays loaded and the handle of the dead process is kept, and it is
\* get_status that reports state error, without a pid.
C6_RetryExhaustedKeepsLoaded ==
    \A c \in Callers :
        C6_Case(c) =>
            /\ result[c] = Err("retry_failed")
            /\ state = "loaded"
            /\ process # None
            /\ GetStatus.state = "error"
            /\ GetStatus.pid = None

\* a call has ended that way
C6_Witness == \E c \in Callers : C6_Case(c) /\ ~result[c].ok

\* ---------------------------------------------------------------- C7
\* C7: from the guard to the return of a transcribe call the state is error
\* exactly if a restart inside the call has failed, and loaded otherwise; in
\* particular it is loaded after attempts that failed without a failed
\* restart, and a call whose first attempt failed and whose restart and
\* retry succeeded returns the text.
C7_ErrorOnlyOnFailedRestart ==
    \A c \in Callers :
        /\ PastGuard(c) \/ (Finished(c, "transcribe") /\ ~Has(c, "not_ready")
                            /\ trace[c] # <<>>)
              => state = IF Has(c, "restart_fail") THEN "error" ELSE "loaded"
        /\ Finished(c, "transcribe")
             /\ EndsWith(c, <<"a1_fail", "restart_ok", "a2_ok">>)
              => result[c].ok /\ result[c].val \in {ParseText(r) : r \in Responses}

\* a call on a live process has returned its text after a failed first
\* attempt, a restart and a retry
C7_Witness ==
    \E c \in Callers :
        /\ Finished(c, "transcribe")
        /\ trace[c] = <<"guard_live", "a1_fail", "restart_ok", "a2_ok">>
        /\ state = "loaded"

\* ---------------------------------------------------------------- C8
AttemptEnds == {"a1_ok", "a1_fail", "a2_ok", "a2_fail"}
RestartEnds == {"restart_ok", "restart_fail", "spawn_fail"}
AttemptLabels == {"a_conn", "a_open", "a_send", "a_recv", "a_done"}
RestartLabels == {"k_entry", "k_term", "k_kill", "r_start", "r_ready", "r_failed"}

\* wire attempts of c's call so far: the ended ones and the running one
AttemptsMade(c) ==
    Cardinality({i \in DOMAIN trace[c] : trace[c][i] \in AttemptEnds})
      + (IF pc[c] \in AttemptLabels THEN 1 ELSE 0)

\* restarts of c's call that followed a failed attempt: ended and running
RecoveryRestarts(c) ==
    Cardinality({i \in DOMAIN trace[c] :
                    /\ trace[c][i] \in RestartEnds
                    /\ i > 1 /\ trace[c][i - 1] \in {"a1_fail", "a2_fail"}})
      + (IF pc[c] \in RestartLabels /\ trace[c] # <<>>
              /\ trace[c][Len(trace[c])] \in {"a1_fail", "a2_fail"}
         THEN 1 ELSE 0)

\* C8: a transcribe call makes at most two wire attempts and at most one
\* restart after a failure; a second attempt follows a failed first attempt
\* and a successful restart; a failed second attempt is the last event of
\* the call, which then only closes the connection and raises.
C8_RecoveryAtMostOnce ==
    \A c \in Callers :
        call[c].op = "transcribe" =>
            /\ AttemptsMade(c) <= 2
            /\ RecoveryRestarts(c) <= 1
            /\ AttemptsMade(c) = 2 =>
                  \E i \in DOMAIN trace[c] :
                      /\ i < Len(trace[c])
                      /\ trace[c][i] = "a1_fail" /\ trace[c][i + 1] = "restart_ok"
                      /\ \A j \in 1..(i - 1) : trace[c][j] \notin AttemptEnds
            /\ \A i \in DOMAIN trace[c] :
                  trace[c][i] = "a2_fail" =>
                      /\ i = Len(trace[c])
                      /\ pc[c] \in {"a_close", "done"}
                      /\ pc[c] = "done" => result[c] = Err("retry_failed")

\* a call has ended with the error after two failed attempts, its process
\* still running
C8_Witness ==
    \E c \in Callers :
        /\ Finished(c, "transcribe")
        /\ EndsWith(c, <<"a2_fail">>)
        /\ process \in alive
        /\ result[c] = Err("retry_failed")

\* ---------------------------------------------------------------- C9
\* the model ids whose directory is found with all its files
CompleteIds ==
    {m \in ModelIds :
        /\ FindModelDir(BaseDir, m) # NoModel
        /\ DetectModelFiles(BaseDir, FindModelDir(BaseDir, m)).ok}

\* C9 as stated: whenever load_model(id) with complete files returns without
\* error, get_status called on the state it returns in reports state loaded,
\* model_id = id and the pid of a live process.
C9_AsStated ==
    [][\A c \in Callers :
          call[c].op = "load_model" /\ call[c].arg \in CompleteIds
              /\ Returns(c) /\ result'[c].ok
          => /\ GetStatus'.state = "loaded"
             /\ GetStatus'.model_id = call[c].arg
             /\ GetStatus'.pid # None]_vars

\* ---------------------------------------------------------------- C10
\* C10 as stated: whenever load_model returns with an error, state is error
\* and the handle holds no live process; when load_model returns, state is
\* not loading.
C10_AsStated ==
    [][\A c \in Callers :
          call[c].op = "load_model" /\ Returns(c)
          => /\ state' # "loading"
             /\ ~result'[c].ok =>
                   /\ state' = "error"
                   /\ process' = None \/ process' \notin alive']_vars

\* ---------------------------------------------------------------- C11
\* the directories _find_model_dir looks at for a model id
Candidates(id) ==
    {id, NemoPrefix \o id}
      \cup (IF id \in DOMAIN KNOWN_MODELS THEN {KNOWN_MODELS[id]} ELSE {})

\* the model id has a directory, and that directory lacks component file f
LacksFile(id, f) ==
    \E d \in Candidates(id) \cap DOMAIN BaseDir :
        IF f = "tokens" THEN TokensFile \notin BaseDir[d]
        ELSE <<f, "int8.onnx">> \notin BaseDir[d] /\ <<f, "onnx">> \notin BaseDir[d]

LackingIds == {m \in ModelIds : \E f \in Components \cup {"tokens"} : LacksFile(m, f)}

\* C11 as stated: load_model of a model id whose directory lacks a component
\* file (encoder, decoder, joiner or vocabulary) ends with the incomplete-model
\* error and state error.
C11_AsStated ==
    \A c \in Callers :
        Finished(c, "load_model") /\ call[c].arg \in LackingIds
            => result[c] = Err("incomplete") /\ state = "error"

\* C11: load_model of a model id whose directory lacks a component file ends
\* with an error and state error, never loaded: the incomplete-model error
\* when the vocabulary is there and encoder, decoder or joiner is missing,
\* the not-found error when the vocabulary is missing.
C11_LackingFilesEndInError ==
    \A c \in Callers :
        Finished(c, "load_model") /\ call[c].arg \in LackingIds
            => /\ state = "error"
               /\ result[c] = IF LacksFile(call[c].arg, "tokens")
                              THEN Err("not_found") ELSE Err("incomplete")

\* a load of the model without joiner has ended, after the model that was
\* loaded before has been unloaded for it
C11_Witness ==
    \E c \in Callers :
        /\ Finished(c, "load_model") /\ call[c].arg = IdPartial
        /\ Has(c, "switch")
        /\ result[c] = Err("incomplete")

\* ---------------------------------------------------------------- C12
\* nothing is loaded: the fields as unload_model leaves them
Unloaded ==
    /\ state = "unloaded"
    /\ model_id = NoModel /\ model_dir = NoModel
    /\ process = None /\ ws = None
    /\ uptime = NotStarted

\* a step taken while an unload_model call runs on an adapter that is
\* already unloaded changes none of the adapter's fields
C12_Step(c) ==
    call[c].op = "unload_model" /\ InBody(c) /\ Unloaded
        => UNCHANGED <<state, model_id, model_dir, process, ws, uptime, metrics>>

\* C12: every unload_model call returns without error, with state unloaded
\* and no handle, connection or model identity; and an unload_model call on
\* an adapter that is already unloaded changes nothing.
C12_UnloadIdempotent ==
    /\ [](\A c \in Callers :
            Finished(c, "unload_model") => result[c] = Ok("unloaded") /\ Unloaded)
    /\ [][\A c \in Callers : C12_Step(c)]_vars

\* an unload_model call has ended that found the adapter unloaded by an
\* earlier one (the model's process had been started and abandoned)
C12_Witness ==
    \E c \in Callers :
        /\ Finished(c, "unload_model")
        /\ Has(c, "was_unloaded")
        /\ alive # {}

\* ---------------------------------------------------------------- C13
\* the step load_model(id) takes from its entry when id is the loaded model
\* and state is loaded: it returns, and nothing of the adapter or of the
\* processes changes
C13_Step(c) ==
    /\ call[c].op = "load_model" /\ pc[c] = "l_entry" /\ pc'[c] # "l_entry"
    /\ model_id = call[c].arg /\ state = "loaded"
    => /\ pc'[c] = "done" /\ result'[c] = Ok("loaded")
       /\ UNCHANGED <<state, model_id, model_dir, process, ws, uptime, metrics,
                      alive, wire>>

\* C13: load_model(id) with id the loaded model and state loaded returns at
\* once: no process is stopped or started, the connection is untouched, and
\* state, model identity, start timestamp and metrics are unchanged.
C13_LoadOfLoadedModelIsNoop == [][\A c \in Callers : C13_Step(c)]_vars

\* such a call has returned on an adapter that has served a request: the
\* process runs and the request is still counted
C13_Witness ==
    \E c \in Callers :
        /\ Finished(c, "load_model") /\ trace[c] = <<"noop">>
        /\ process \in alive
        /\ metrics.request_count > 0

\* ---------------------------------------------------------------- C14
\* the two steps of a call whose wait for the gate timed out: giving up the
\* wait, and leaving with the error
C14_Step(c) ==
    /\ pc[c] = "wait" /\ pc'[c] = "done"
          => /\ result'[c] = Err("lock_timeout")
             /\ ~HoldsGate(c) /\ ~call'[c].gate
             /\ trace'[c] = <<>>
             /\ UNCHANGED <<locked, state, model_id, model_dir, process, ws,
                            uptime, metrics>>
    /\ pc[c] = "done" /\ result[c] = Err("lock_timeout") /\ pc'[c] # "done"
          => /\ pc'[c] = "idle"
             /\ UNCHANGED <<locked, state, model_id, model_dir, process, ws,
                            uptime, metrics>>

\* C14: a transcribe call whose wait for the gate times out gets the
\* lock-timeout error without having held the gate or entered its body, the
\* lock stays as it is (held by the other caller) when it gives up and when
\* it leaves, and state, model identity, handle, connection and metrics are
\* unchanged.
C14_LockTimeoutTouchesNothing == [][\A c \in Callers : C14_Step(c)]_vars

\* a call has the lock-timeout error while the other caller is still in its
\* critical section
C14_Witness ==
    \E c, d \in Callers :
        /\ c # d
        /\ Finished(c, "transcribe") /\ result[c] = Err("lock_timeout")
        /\ InBody(d) /\ HoldsGate(d) /\ locked

\* ---------------------------------------------------------------- C15
\* C15 as stated: every call of transcribe, load_model or unload_model that
\* waits for the gate can give up with the timeout error: its wait is bounded.
C15_AsStated ==
    \A c \in Callers : pc[c] = "wait" => ENABLED LockTimeout(c)

\* ---------------------------------------------------------------- C16
\* caller c is queued before caller d
QueuedBefore(c, d) ==
    \E i, j \in DOMAIN waiters : i < j /\ waiters[i] = c /\ waiters[j] = d

\* the step in which c gets the gate: everybody still waiting then has
\* started to wait after c (and nobody waits if c has just arrived)
C16_Step(c) ==
    ~HoldsGate(c) /\ call'[c].gate =>
        \A d \in Callers \ {c} :
            pc[d] = "wait" => pc[c] = "wait" /\ QueuedBefore(c, d)

\* C16: the gate is given in the order in which the callers started to wait:
\* whenever a caller gets the gate, no other caller is waiting that started
\* to wait before it, also when it arrives while the gate is free and the
\* first waiter has not yet resumed.
C16_ServedInWaitOrder == [][\A c \in Callers : C16_Step(c)]_vars

\* the gate has been released, the first waiter has not yet resumed, and a
\* caller that arrived at that moment has queued behind it
C16_Witness == ~locked /\ Len(waiters) = 2

\* ---------------------------------------------------------------- C17
\* C17 as stated: every call that holds the gate eventually releases it,
\* whatever the engine process does.
C17_AsStated ==
    \A c \in Callers : HoldsGate(c) ~> ~HoldsGate(c)

\* ---------------------------------------------------------------- C18
UnpackI32(b) == b[1] + 256 * b[2] + 65536 * b[3] + 16777216 * b[4]
CeilDiv(a, b) == (a + b - 1) \div b

\* caller c completes one ws.send of the chunk loop
SendStep(c) ==
    /\ pc[c] = "a_send"
    /\ call'[c].sent = call[c].sent + 1 \/ pc'[c] = "a_recv"

MsgLen(m) == Len(m.header) + m.audio

\* C18 as stated: when the chunk loop of an attempt ends, the number of
\* messages that carried audio data is ceil(4N / 10240).
C18_AsStated ==
    [][\A c \in Callers :
          SendStep(c) /\ pc'[c] = "a_recv" =>
              Cardinality({k \in 0..call[c].sent :
                  Chunk(Buf(call[c].rate, call[c].samples), k).audio > 0})
                = CeilDiv(4 * call[c].samples, chunk_size)]_vars

C18_Step(c) ==
    LET R == call[c].rate
        N == call[c].samples
        k == call[c].sent
        m == wire'[Len(wire')]
    IN  /\ SendStep(c) =>
            /\ m[1] = c /\ m[2] = "data"
            /\ MsgLen(m[3]) \in 1..chunk_size
            /\ IF k = 0
               THEN /\ Len(m[3].header) = 8
                    /\ UnpackI32(SubSeq(m[3].header, 1, 4)) = R
                    /\ UnpackI32(SubSeq(m[3].header, 5, 8)) = 4 * N
               ELSE m[3].header = <<>>
            /\ IF pc'[c] = "a_recv"
               THEN /\ k + 1 = CeilDiv(8 + 4 * N, chunk_size)
                    /\ k * chunk_size + MsgLen(m[3]) = 8 + 4 * N
               ELSE MsgLen(m[3]) = chunk_size
        /\ pc[c] \in {"a_send", "a_recv"} /\ wire' # wire => m[2] # "Done"
        /\ pc[c] = "a_done" /\ wire' # wire => m = <<c, "Done">>

\* C18: every wire attempt sends the 8-byte little-endian header encoding
\* exactly R and 4N directly followed by the 4N data bytes, as one byte stream
\* cut into ceil((8 + 4N) / 10240) messages of at most 10240 bytes, the header
\* at the start of the first; the terminator is written only after the answer
\* has been received.
C18_HeaderAndDataInOneStream == [][\A c \in Callers : C18_Step(c)]_vars

\* an attempt has sent 4 * 2559 = 10236 data bytes: two messages, the second
\* with the last four bytes
C18_Witness ==
    \E c \in Callers :
        /\ pc[c] = "a_recv"
        /\ 4 * call[c].samples = chunk_size - 4
        /\ LastWritten = <<c, "data", [header |-> <<>>, audio |-> 4]>>

\* ---------------------------------------------------------------- C19
\* C19 as stated: transcribe never returns the literal token <EMPTY>; an
\* answer that carries it, raw or in the text field, gives the empty text.
C19_AsStated ==
    \A c \in Callers :
        Finished(c, "transcribe") /\ result[c].ok
            => result[c].val # <<Sentinel>>

\* ---------------------------------------------------------------- C20
\* the text C20 promises for answer r: the trimmed text field of an object
\* that has one, the trimmed raw message otherwise (the sentinel read as the
\* empty text, which C19 asks for)
PromisedText(r) ==
    LET t == IF r.form = "object" /\ "text" \in DOMAIN r.value
             THEN Strip(r.value.text)
             ELSE Strip(r.raw)
    IN  IF t = <<Sentinel>> THEN <<>> ELSE t

\* C20 as stated: once the answer is received and the terminator sent, the
\* attempt does not fail and the call returns the promised text.
C20_AsStated ==
    [][\A c \in Callers :
          pc[c] = "a_done" /\ wire' # wire
              => pc'[c] = "done" /\ result'[c] = Ok(PromisedText(call[c].resp))]_vars

\* ---------------------------------------------------------------- C21
\* C21 as stated: a transcribe call in which a wire attempt failed or which
\* a failed restart aborted has increased error_count when it returns.
C21_AsStated ==
    \A c \in Callers :
        Finished(c, "transcribe")
          /\ (Has(c, "a1_fail") \/ Has(c, "a2_fail") \/ Has(c, "restart_fail"))
            => metrics.error_count > call[c].m0.error_count

\* ---------------------------------------------------------------- C22
\* a step of load_model past its already-loaded check that resets the metrics
LoadResets ==
    \E c \in Callers :
        /\ call[c].op = "load_model"
        /\ pc[c] \in {"l_entry", "u_clear"}
        /\ metrics' = ResetMetrics

\* a wire attempt of some call ends in success
AttemptSucceeds ==
    \E c \in Callers : pc[c] = "a_done" /\ pc'[c] = "done" /\ result'[c].ok

Grows(f) == metrics'[f] >= metrics[f]

\* C22 as stated: apart from the reset by load_model, no step decreases any
\* of the four counters.
C22_AsStated ==
    [][LoadResets
       \/ \A f \in {"request_count", "error_count", "consecutive_errors",
                    "subprocess_restart_count"} : Grows(f)]_vars

\* C22: request_count, error_count and subprocess_restart_count never
\* decrease except by the reset of a load_model call that gets past its
\* already-loaded check, and every such call returns with all counters zero;
\* consecutive_errors is set to zero by every successful wire attempt as well
\* and decreases at no other step.
C22_CountersMonotonic ==
    /\ [][LoadResets
          \/ /\ \A f \in {"request_count", "error_count",
                          "subprocess_restart_count"} : Grows(f)
             /\ \/ Grows("consecutive_errors")
                \/ AttemptSucceeds /\ metrics'.consecutive_errors = 0]_vars
    /\ [](\A c \in Callers :
            Finished(c, "load_model") /\ ~Has(c, "noop")
                => metrics = ResetMetrics)

\* a call has returned the text of its second attempt: the error of the
\* first stays counted, consecutive_errors is back at zero
C22_Witness ==
    \E c \in Callers :
        /\ Finished(c, "transcribe") /\ result[c].ok
        /\ Has(c, "a1_fail")
        /\ metrics.error_count = 1 /\ metrics.consecutive_errors = 0

\* ---------------------------------------------------------------- C23
\* the step in which caller c's get_status call runs
StatusStep(c) == call[c].op = "none" /\ call'[c].op = "get_status"

C23_Step(c) ==
    StatusStep(c) =>
        LET status == result'[c].val IN
        /\ UNCHANGED <<state, model_id, model_dir, process, ws, metrics, uptime>>
        /\ UNCHANGED <<locked, waiters>>
        /\ state = "loaded" /\ (process = None \/ process \notin alive)
              => status.state = "error" /\ status.error
        /\ status.state = "loaded"
              => status.pid # None /\ status.pid = process /\ process \in alive

\* C23: a get_status call changes no adapter field and not the gate, whatever
\* the other callers are doing; it reports state error with the message
\* whenever the stored state is loaded and the handle is absent or its process
\* has exited; it reports state loaded only with the pid of the handle's
\* process, which has not exited.
C23_StatusOnlyReads == [][\A c \in Callers : C23_Step(c)]_vars

\* get_status has reported error over a stored state loaded while another
\* call holds the gate
C23_Witness ==
    \E c, d \in Callers :
        /\ c # d
        /\ Finished(c, "get_status")
        /\ result[c].val.state = "error" /\ state = "loaded"
        /\ HoldsGate(d) /\ InBody(d)

\* ---------------------------------------------------------------- C24
\* C24 as stated: at most one process started by the adapter is running.
C24_AsStated == Cardinality(alive) <= 1

\* ---------------------------------------------------------------- C25
\* the labels between the close that opens a restart, an unload or the
\* handling of a failed attempt and the next use of the connection
AfterCloseLabels ==
    {"k_entry", "k_term", "k_kill", "r_start", "r_ready", "r_failed",
     "u_clear", "l_start", "l_ready", "l_failed"}

\* C25: the one connection slot is empty from the close that follows a failed
\* wire attempt or opens a restart or an unload until the next attempt
\* connects, and when a call returns after a failure past the guard or
\* after an unload; a connection in the slot is one to the process of the
\* current handle; and an exchange starts only on a connection that is new or
\* whose last message was a terminator.
C25_ConnectionSlot ==
    /\ ws # None => process # None /\ ws = process
    /\ \A c \in Callers :
        /\ pc[c] \in AfterCloseLabels => ws = None
        /\ Finished(c, "transcribe") /\ ~result[c].ok /\ call[c].gate
             /\ ~Has(c, "not_ready")
              => ws = None
        /\ Finished(c, "unload_model") => ws = None
        /\ pc[c] = "a_send" /\ call[c].sent = 0
              => wire = <<>> \/ LastWritten[2] \in Terminators

\* a call whose two attempts failed has returned: the slot is empty although
\* the second attempt had connected to the restarted process
C25_Witness ==
    \E c \in Callers :
        /\ Finished(c, "transcribe")
        /\ EndsWith(c, <<"restart_ok", "a2_fail">>)
        /\ wire # <<>> /\ LastWritten = <<c, "close">>
        /\ ws = None /\ process \in alive

\* ---------------------------------------------------------------- C26
\* C26 as stated: the startup failure that load_model raises after it has
\* started a process names a pid.
C26_AsStated ==
    \A c \in Callers :
        Finished(c, "load_model") /\ result[c].val = "start_failed"
            => result[c].pid # None

\* ---------------------------------------------------------------- C27
\* C27 as stated: when the exit of the process was seen during the readiness
\* polling of load_model, the error that load_model raises carries the
\* captured stderr, at most 4096 bytes of it.
C27_AsStated ==
    \A c \in Callers :
        Finished(c, "load_model") /\ call[c].stderr # <<>>
            => /\ ~result[c].ok
               /\ "stderr" \in DOMAIN result[c]
               /\ result[c].stderr = call[c].stderr
               /\ call[c].stderr[1] <= StderrLimit

\* ---------------------------------------------------------------- C28
RECURSIVE Count(_, _)
Count(seq, e) ==
    IF seq = <<>> THEN 0
    ELSE (IF Head(seq) = e THEN 1 ELSE 0) + Count(Tail(seq), e)

\* C28: a transcribe call in which a restart's new process did not become
\* ready returns an error right after the stop of that process, with no wire
\* attempt after the failed restart: state is error, no handle and no
\* connection remain, the restart counter counts the successful restarts
\* only, and the call still holds the gate that its exit releases; the stop
\* procedure has run on the new process before (the handle is gone when the
\* error is made).
C28_FailedRestartAborts ==
    \A c \in Callers :
        /\ pc[c] = "r_failed" => process = None /\ ws = None
        /\ Finished(c, "transcribe") /\ Has(c, "restart_fail")
            => /\ EndsWith(c, <<"restart_fail">>)
               /\ result[c] = Err("restart_failed")
               /\ state = "error"
               /\ process = None /\ ws = None
               /\ metrics.subprocess_restart_count
                    = call[c].m0.subprocess_restart_count
                        + Count(trace[c], "restart_ok")
               /\ HoldsGate(c) /\ locked

\* the restart after a failed first attempt has failed and the call has
\* returned its error
C28_Witness ==
    \E c \in Callers :
        /\ Finished(c, "transcribe")
        /\ EndsWith(c, <<"a1_fail", "restart_fail">>)
        /\ state = "error"

\* ---------------------------------------------------------------- C29
C29_Step(c) ==
    \* the stop of the old process is entered with the connection closed
    /\ pc[c] # "k_entry" /\ pc'[c] = "k_entry" /\ call'[c].kret = "r_start"
          => ws' = None
    \* the start is reached with connection and handle gone
    /\ pc[c] # "r_start" /\ pc'[c] = "r_start"
          => ws' = None /\ process' = None
    \* the start: a new process on the files of the unchanged identity
    /\ pc[c] = "r_start" /\ pc'[c] = "r_ready"
          => /\ process = None /\ process' # None /\ process' \in alive'
             /\ process' \notin alive
             /\ model_id' = model_id /\ model_dir' = model_dir
             /\ model_dir # NoModel
             /\ <<process', DetectModelFiles(BaseDir, model_dir).files>> \in serving'
    \* readiness is waited for after the start only, and its success is the
    \* success of the restart
    /\ pc[c] # "r_ready" /\ pc'[c] = "r_ready" => pc[c] = "r_start"
    /\ pc[c] = "r_ready" /\ pc'[c] = "a_conn"
          => /\ metrics'.subprocess_restart_count
                   = metrics.subprocess_restart_count + 1
             /\ \A f \in {"request_count", "error_count", "consecutive_errors"} :
                   metrics'[f] = metrics[f]
             /\ uptime' = 0
             /\ state' = "loaded"
             /\ model_id' = model_id /\ model_dir' = model_dir
             /\ process' = process /\ process \in alive

\* C29: a restart closes the connection, then stops the old process, then
\* starts a new process on the model files of the unchanged identity, then
\* waits for readiness; when the new process is ready the restart counter
\* grows by exactly one, the process-start time is set anew, the model
\* identity is unchanged and state is loaded.
C29_RestartOrder == [][\A c \in Callers : C29_Step(c)]_vars

\* a proactive restart has succeeded and the first attempt is about to connect
C29_Witness ==
    \E c \in Callers :
        /\ pc[c] = "a_conn"
        /\ EndsWith(c, <<"proactive", "restart_ok">>)
        /\ metrics.subprocess_restart_count = 1
        /\ uptime = 0 /\ state = "loaded"

\* ---------------------------------------------------------------- C30
RestartOnlyLabels == {"r_close", "r_start", "r_ready", "r_failed"}

C30_Step(c) ==
    \* passing the guard starts a proactive restart exactly when it is due
    /\ pc[c] = "t_guard" /\ pc'[c] \notin {"t_guard", "done"}
          => /\ pc'[c] \in {"r_close", "a_conn"}
             /\ pc'[c] = "r_close"
                  <=> restart_hours > 0 /\ uptime # NotStarted
                        /\ uptime >= restart_hours
    \* and a proactive restart starts nowhere else
    /\ call'[c].rkind = "proactive" /\ call[c].rkind # "proactive"
          => pc[c] = "t_guard" /\ call[c].op = "transcribe"
    \* the restart counter moves only inside a transcribe call (or is reset)
    /\ metrics'.subprocess_restart_count # metrics.subprocess_restart_count
          => \/ metrics' = ResetMetrics
             \/ \E d \in Callers : call[d].op = "transcribe" /\ pc[d] = "r_ready"

\* C30: a transcribe call that passes the readiness guard starts a proactive
\* restart exactly when the threshold is greater than 0 and the time since
\* the last process start has reached it; the restart is over before the
\* call's first wire attempt; with threshold 0 there is none; and only a
\* transcribe call is ever inside a restart or moves the restart counter.
C30_ProactiveRestart ==
    /\ [][\A c \in Callers : C30_Step(c)]_vars
    /\ [](\A c \in Callers :
            /\ Has(c, "proactive") => restart_hours > 0
            /\ Has(c, "proactive") /\ pc[c] \in AttemptLabels
                  => trace[c][3] = "restart_ok"
            /\ Has(c, "proactive") /\ Len(trace[c]) >= 3
                  => trace[c][3] \in {"restart_ok", "restart_fail", "spawn_fail"}
            /\ pc[c] \in RestartOnlyLabels \/ call[c].rkind # "none"
                  => call[c].op = "transcribe")

\* a call has passed the guard with the threshold reached and is about to
\* restart the process it found running
C30_Witness ==
    \E c \in Callers :
        /\ pc[c] = "r_close"
        /\ trace[c] = <<"guard_live", "proactive">>
        /\ restart_hours > 0 /\ uptime >= restart_hours

\* ---------------------------------------------------------------- C31
\* the labels of load_model after the unload of a model switch
AfterSwitchLabels == {"l_start", "l_ready", "l_failed", "done"}

\* C31 as stated: once a load_model that switches models has got past the
\* unload, the old process is stopped, the connection closed and the identity
\* no longer the old one; and if the load fails the state is error, there is
\* no handle, and get_status reports no model or the new one.
C31_AsStated ==
    \A c \in Callers :
        call[c].op = "load_model" /\ Has(c, "switch")
            => /\ pc[c] \in AfterSwitchLabels
                    => ws = None /\ model_id \in {NoModel, call[c].arg}
               /\ pc[c] = "l_start" => process = None
               /\ pc[c] = "done" /\ ~result[c].ok
                    => /\ state = "error"
                       /\ process = None
                       /\ GetStatus.pid = None
                       /\ GetStatus.model_id \in {NoModel, call[c].arg}

\* ---------------------------------------------------------------- C32
\* C32 as stated: after a load_model call that failed, get_status reports
\* neither the id nor the path of the model that failed to load.
C32_AsStated ==
    \A c \in Callers :
        Finished(c, "load_model") /\ ~result[c].ok
            => /\ GetStatus.model_id # call[c].arg
               /\ GetStatus.model_path = NoModel
                    \/ GetStatus.model_path # FindModelDir(BaseDir, call[c].arg)

\* ---------------------------------------------------------------- C33
\* caller c writes a message of the given kind in this step
Writes(c, kind) ==
    /\ wire' # wire
    /\ wire'[Len(wire')][1] = c
    /\ wire'[Len(wire')][2] = kind

\* C33: within one wire attempt the data writes come first, then one read of
\* the response, then one "Done": data is written only in the chunk loop and
\* before any response was read, the read starts only when the last chunk
\* has been written, "Done" is written only with the response in hand and
\* the step that writes it leaves the attempt, and a transcribe call that
\* returns text does so in the step that writes "Done" on the connection
\* that is still in the slot.
C33_WireOrder ==
    [][\A c \in Callers :
          /\ Writes(c, "data")
                => /\ pc[c] = "a_send"
                   /\ call[c].resp = NoResponse
          /\ pc'[c] = "a_recv" /\ pc[c] # "a_recv"
                => /\ Writes(c, "data")
                   /\ ~HasChunk(Buf(call[c].rate, call[c].samples), call[c].sent + 1)
          /\ call'[c].resp # NoResponse /\ call[c].resp = NoResponse
                => pc[c] = "a_recv" /\ pc'[c] = "a_done"
          /\ pc'[c] = "a_done" /\ pc[c] # "a_done" => pc[c] = "a_recv"
          /\ Writes(c, "Done")
                => /\ pc[c] = "a_done"
                   /\ call[c].resp # NoResponse
                   /\ pc'[c] \notin AttemptLabels
          /\ (call[c].op = "transcribe" /\ pc[c] # "done" /\ pc'[c] = "done"
                 /\ result'[c].ok)
                => /\ Writes(c, "Done")
                   /\ ws # None
                   /\ ws' = ws
      ]_vars

\* a call returned text at its second attempt, the terminator of that
\* attempt being the last message on the wire
C33_Witness ==
    \E c \in Callers :
        /\ Finished(c, "transcribe")
        /\ result[c].ok
        /\ Has(c, "a2_ok")
        /\ wire # <<>>
        /\ LastWritten = <<c, "Done">>

\* ---------------------------------------------------------------- C34
\* a byte string in which sample bytes come before header bytes
Scrambled == [header |-> <<>>, audio |-> -1]

Empty == [header |-> <<>>, audio |-> 0]

\* a followed by b, as a byte string of header bytes followed by sample bytes
Join(a, b) ==
    IF a = Scrambled \/ b = Scrambled \/ (a.audio > 0 /\ b.header # <<>>)
    THEN Scrambled
    ELSE [header |-> a.header \o b.header, audio |-> a.audio + b.audio]

\* the first k messages of the chunk loop over buf, joined in send order
RECURSIVE Joined(_, _)
Joined(buf, k) == IF k = 0 THEN Empty ELSE Join(Joined(buf, k - 1), Chunk(buf, k - 1))

\* C34: each write of a wire attempt is at most 10240 bytes; a write that is
\* not the last of its attempt is exactly 10240 bytes; the writes so far,
\* joined in send order, are the first bytes of header + samples, and with
\* the last write they are the 8 header bytes encoding R and 4N followed by
\* the 4N sample bytes.
C34_WritesRebuildBuffer ==
    [][\A c \in Callers :
          SendStep(c) =>
              LET R == call[c].rate
                  N == call[c].samples
                  k == call[c].sent
                  m == wire'[Len(wire')][3]
                  sofar == Join(Joined(Buf(R, N), k), m)
              IN  /\ MsgLen(m) <= chunk_size
                  /\ pc'[c] # "a_recv" => MsgLen(m) = chunk_size
                  /\ sofar # Scrambled
                  /\ sofar.header = SubSeq(PackI32(R) \o PackI32(4 * N), 1,
                                           Len(sofar.header))
                  /\ MsgLen(sofar) = Min((k + 1) * chunk_size, 8 + 4 * N)
                  /\ sofar.audio > 0 => Len(sofar.header) = 8
                  /\ pc'[c] = "a_recv"
                        => sofar = [header |-> PackI32(R) \o PackI32(4 * N),
                                    audio |-> 4 * N]
      ]_vars

\* an attempt has written a buffer longer than one message: the last write
\* is the short remainder
C34_Witness ==
    \E c \in Callers :
        /\ pc[c] = "a_recv"
        /\ BufLen(Buf(call[c].rate, call[c].samples)) > chunk_size
        /\ LastWritten[1] = c
        /\ LastWritten[2] = "data"
        /\ MsgLen(LastWritten[3]) < chunk_size

\* ---------------------------------------------------------------- C35
\* C35: an attempt reaches its first write either over the connection found
\* in the slot, the ping on it having returned, or over a connection opened
\* in that step into an empty slot; a ping that fails closes the connection,
\* empties the slot and leads to the connect; a connect that fails leaves the
\* slot empty and ends the attempt as failed; data is written only with a
\* connection in the slot.
C35_ProbeBeforeData ==
    [][\A c \in Callers :
          /\ pc'[c] = "a_send" /\ pc[c] # "a_send"
                => \/ pc[c] = "a_conn" /\ ws # None /\ ws' = ws /\ wire' = wire
                   \/ Connecting(c) /\ ws = None /\ ws' \in alive /\ wire' = wire
          /\ pc[c] = "a_conn" /\ ws # None /\ pc'[c] \notin {"a_conn", "a_send"}
                => /\ pc'[c] = "a_open"
                   /\ ws' = None
                   /\ wire' = Written(<<c, "close">>)
          /\ pc[c] = "a_open" => ws = None
          /\ Connecting(c) /\ pc'[c] \notin {pc[c], "a_send"}
                => /\ pc'[c] = "a_close"
                   /\ ws' = None
                   /\ wire' = wire
                   /\ trace'[c] = Append(trace[c],
                         IF call[c].attempt = 1 THEN "a1_fail" ELSE "a2_fail")
          /\ Writes(c, "data") => ws # None /\ ws' = ws
      ]_vars

\* the first attempt of a call found a connection in the slot, its ping
\* failed, the connection was closed and a new one is open for the data
C35_Witness ==
    \E c \in Callers :
        /\ pc[c] = "a_send"
        /\ call[c].attempt = 1
        /\ call[c].sent = 0
        /\ ws \in alive
        /\ wire # <<>>
        /\ LastWritten = <<c, "close">>

\* ---------------------------------------------------------------- C36
\* positions inside _kill_process: before the first check, in the graceful
\* wait after SIGTERM, in the wait after SIGKILL
StopLabels == {"k_entry", "k_term", "k_kill"}

\* C36: SIGKILL is sent only from the graceful wait that followed SIGTERM,
\* and only to a process that has not exited; SIGTERM is sent only to a
\* process of the handle that has not exited; a process that exits during
\* the graceful wait has its handle dropped without SIGKILL; a process found
\* exited at the start has its handle dropped without any signal; with no
\* handle nothing changes; and no step of the stop sequence sets a result or
\* leaves it other than by returning to its caller.
C36_StopSequence ==
    [][\A c \in Callers :
          /\ pc'[c] = "k_kill" /\ pc[c] # "k_kill"
                => pc[c] = "k_term" /\ process \in alive /\ process' = process
          /\ pc'[c] = "k_term" /\ pc[c] # "k_term"
                => pc[c] = "k_entry" /\ process \in alive /\ process' = process
          /\ pc[c] = "k_term" /\ Exited /\ pc'[c] # "k_term"
                => pc'[c] = call[c].kret /\ process' = None
          /\ pc[c] = "k_entry" /\ process # None /\ Exited /\ pc'[c] # "k_entry"
                => pc'[c] = call[c].kret /\ process' = None
          /\ pc[c] = "k_entry" /\ process = None /\ pc'[c] # "k_entry"
                => /\ pc'[c] = call[c].kret
                   /\ UNCHANGED <<adapterVars, envVars, wire>>
          /\ pc[c] \in StopLabels
                => /\ result'[c] = result[c]
                   /\ trace'[c] = trace[c]
                   /\ state' = state
                   /\ alive' \subseteq alive
                   /\ pc'[c] \in StopLabels \cup {call[c].kret}
      ]_vars

\* the stop sequence of a model switch has sent SIGKILL to a process that
\* outlived the graceful wait
C36_Witness ==
    \E c \in Callers :
        /\ pc[c] = "k_kill"
        /\ call[c].op = "load_model"
        /\ process \in alive

\* ---------------------------------------------------------------- C37
\* the poll locals of c change in this step
PollStep(c) == call'[c] # call[c]

\* C37: every run of the readiness polling ends with an answer.  The answer
\* is true only by a handshake made before the deadline with a process not
\* seen exited, and that handshake is the last; when the process of the
\* handle has exited the next step of the poll answers false without a sleep
\* or another handshake; when the deadline has passed the next step answers
\* false; a sleep happens only before the deadline, lasts the current delay,
\* and the delay starts at 0.5 s, never decreases and never exceeds 3 s.
C37_ReadinessPolling ==
    /\ [][\A c \in Callers :
             LET l == call[c]
                 n == call'[c]
             IN  /\ l.ready = "none" /\ PollStep(c)
                       => n.ready = "pending" /\ n.delay = InitialDelay /\ n.waited = 0
                 /\ l.ready \in {"yes", "no"} => ~PollStep(c)
                 /\ l.ready = "pending" /\ PollStep(c)
                       => \/ /\ n.ready = "yes"
                             /\ l.waited < ReadyTimeout
                             /\ process \in alive
                             /\ n.waited = l.waited /\ n.delay = l.delay
                          \/ /\ n.ready = "no"
                             /\ Exited \/ l.waited >= ReadyTimeout
                             /\ n.waited = l.waited /\ n.delay = l.delay
                          \/ /\ n.ready = "pending"
                             /\ l.waited < ReadyTimeout
                             /\ ~Exited
                             /\ n.waited >= l.waited + l.delay
                             /\ n.delay >= l.delay
                             /\ 2 * n.delay = Min(3 * l.delay, 2 * MaxDelay)
                 /\ l.ready = "pending" /\ PollStep(c)
                      /\ (Exited \/ l.waited >= ReadyTimeout)
                       => n.ready = "no"
         ]_vars
    /\ [](\A c \in Callers :
             call[c].ready = "pending"
                 => call[c].delay \in InitialDelay..MaxDelay)
    /\ \A c \in Callers :
          InReadyWait(c) ~> call[c].ready \in {"yes", "no"}

\* the poll gave up at the deadline, the back-off having reached its cap,
\* with the engine still running
C37_Witness ==
    \E c \in Callers :
        /\ call[c].ready = "no"
        /\ call[c].waited >= ReadyTimeout
        /\ call[c].delay = MaxDelay
        /\ process \in alive

\* ---------------------------------------------------------------- C38
\* C38 as stated: whenever no call holds the gate, state loaded comes with a
\* handle and a model identity, and state unloaded or error comes with an
\* empty handle slot and an empty connection slot.
C38_AsStated ==
    ~locked =>
        /\ state = "loaded" => process # None /\ model_id # NoModel
        /\ state \in {"unloaded", "error"} => process = None /\ ws = None

\* ---------------------------------------------------------------- C39
\* C39 as stated: for every layout, resolving the id of a listed entry finds
\* a directory, and it is the directory of that entry.
C39_AsStated ==
    \A c \in Callers :
        call[c].op = "resolve"
            => result[c].val # NoModel /\ result[c].val = result[c].listed

\* ---------------------------------------------------------------- C40
\* C40 as stated: whenever no call holds the gate and the handle slot is
\* empty, get_status reports no uptime (the start timestamp is zero).
C40_AsStated ==
    ~locked /\ process = None => ~GetStatus.has_uptime

====
